---- MODULE Spec2Model ----
(***************************************************************************)
(* Website Time Tracker: the service worker's session tracker and event    *)
(* reconciler (src/unnamed/part_000, the current background script).       *)
(*                                                                         *)
(* JavaScript runs one handler segment at a time; a handler gives up the   *)
(* thread at every `await`.  Each action below is one such segment: it     *)
(* performs the awaited browser call (storage get/set, tabs.get, ...) and  *)
(* runs the code that follows it up to the next await.  Continuations of   *)
(* an awaited endSession promise are microtasks: they run before any other *)
(* event or reply (MicroPending).                                          *)
(***************************************************************************)
EXTENDS Integers, Sequences, FiniteSets, TLC

\* ---------------------------------------------------------------- bounds
MaxTicks    == 2   \* clock ticks in a behaviour
MaxEvents   == 2   \* browser events raised in a behaviour
SeqTicks    == 3   \* clock ticks in a sequential behaviour
SeqEvents   == 3   \* browser events raised in a sequential behaviour
DeepTicks   == 1   \* clock ticks in a behaviour of the longer overlapping runs
DeepEvents  == 3   \* browser events raised in such a behaviour
FaultTicks  == 2   \* clock ticks in a behaviour with failing queries
FaultEvents == 3   \* browser events raised in such a behaviour
StuckTicks  == 1   \* clock ticks in a behaviour with a write that never resolves
StuckEvents == 3   \* browser events raised in such a behaviour
UpdTicks    == 1   \* clock ticks in a behaviour of tab switches and navigations
UpdEvents   == 4   \* browser events raised in such a behaviour
RollTicks   == 2   \* clock ticks in a behaviour that begins on the last tick of a day
RollEvents  == 2   \* browser events raised in such a behaviour
MaxMs       == 12  \* durations given to roundMs: 0 .. MaxMs, and the unit test's values
MaxG        == 4   \* granularities given to roundMs: -MaxG .. MaxG, and 1000
MaxBlocks   == 3   \* blocks of a timeline given to aggregateTimeline
MaxTime     == 2   \* start and end of such a block: 0 .. MaxTime
MaxPieces   == 3   \* hostname pieces of a URL given to hostnameFromUrl
MaxHandlers == 2   \* event handlers in flight at once
MaxEnds     == 2   \* endSession promises in flight at once

\* ------------------------------------------------------ program constants
DEFAULT_GRANULARITY_MS == 1000
WINDOW_ID_NONE == -1

TickMs == DEFAULT_GRANULARITY_MS \div 2     \* the clock advances in half-granules

\* --------------------------------------------------------- value encoding
NULL   == "null"      \* JS null/undefined for strings (a property key null prints "null")
NoId   == 0           \* JS null for tab ids, window ids and promises
NoTime == -1          \* JS null for timestamps

Domains == {"a.com", "b.com"}

\* URLs as token sequences <<scheme, hostname piece ..., path>>.  A URL that new URL()
\* parses begins with a scheme and ends with its path; the pieces between them make up
\* its hostname, a leading "www." being a piece of its own.
U_A     == <<"https://", "www.", "a.com", "/watch">>
U_B     == <<"https://", "b.com", "/foo">>
U_INT   == <<"chrome://", "extensions">>
U_BLANK == <<"about:", "blank">>
U_EMPTY == <<>>
U_GONE  == <<"gone">>              \* marks a tab that no longer exists

InternalSchemes == {"chrome://", "chrome-extension://", "edge://", "about:"}
ParsedSchemes == {"https://", "http://", "file://"}     \* the other schemes of tab URLs

RECURSIVE Join(_)
Join(pieces) == IF pieces = <<>> THEN "" ELSE Head(pieces) \o Join(Tail(pieces))
\* the pieces of new URL(url).hostname
HostPieces(url) == SubSeq(url, 2, Len(url) - 1)
RECURSIVE StripWww_All(_)
StripWww_All(pieces) ==
  IF pieces # <<>> /\ Head(pieces) = "www." THEN StripWww_All(Tail(pieces)) ELSE pieces
\* .replace(/^www\./, '')
StripWww(pieces) == IF pieces # <<>> /\ Head(pieces) = "www." THEN Tail(pieces) ELSE pieces

\* a hostnameFromUrl that removes every leading "www."
hostnameFromUrl_AllWww(url) ==
  IF url = U_EMPTY \/ url[1] \in InternalSchemes THEN NULL
  ELSE IF url[1] \notin ParsedSchemes \/ Len(url) < 2 THEN NULL
  ELSE LET hostname == Join(StripWww_All(HostPieces(url)))
       IN IF hostname = "" THEN NULL ELSE hostname

hostnameFromUrl(url) ==
  IF url = U_EMPTY \/ url[1] \in InternalSchemes THEN NULL
  ELSE IF url[1] \notin ParsedSchemes \/ Len(url) < 2 THEN NULL     \* new URL() throws
  ELSE LET hostname == Join(StripWww(HostPieces(url)))
       IN IF hostname = "" THEN NULL ELSE hostname                  \* || null

\* a variant that never treats a tab as still loading
tabStillLoading_Never(url) == FALSE
tabStillLoading(url) == url = U_EMPTY \/ url = U_BLANK

shouldTrack_NoExclusion(hostname, excludeDomains) == hostname # NULL
\* a variant that tracks everything
shouldTrack_Always(hostname, excludeDomains) == TRUE

shouldTrack(hostname, excludeDomains) ==
  IF hostname = NULL THEN FALSE ELSE hostname \notin excludeDomains

\* a roundMs that rounds to the largest multiple strictly below ms
roundMs_Below(ms, granularityMs) ==
  IF granularityMs = 0 \/ granularityMs <= 0 THEN ms
  ELSE ((ms - 1) \div granularityMs) * granularityMs

roundMs_Ceil(ms, granularityMs) ==
  IF granularityMs <= 0 THEN ms
  ELSE ((ms + granularityMs - 1) \div granularityMs) * granularityMs

roundMs(ms, granularityMs) ==
  IF granularityMs = 0 \/ granularityMs <= 0 THEN ms
  ELSE (ms \div granularityMs) * granularityMs

Coalesce(a, b) == IF a = NoTime THEN b ELSE a      \* a ?? b on timestamps

\* ---- aggregateTimeline (src/unnamed/part_001:249-261)
\* byDomain is a sequence of entries [domain, ms, blocks] in the order the keys were
\* inserted, which is the order Object.entries lists them in.
AggIndex(acc, d) == {i \in DOMAIN acc : acc[i].domain = d}
\* the body of the for loop, lines 251-257
AggAdd(acc, block) ==
  LET d == block.domain
      dur == block.end - block.start
      acc1 == IF AggIndex(acc, d) = {}
              THEN Append(acc, [domain |-> d, ms |-> 0, blocks |-> <<>>]) ELSE acc
  IN [i \in DOMAIN acc1 |->
        IF acc1[i].domain = d
        THEN [acc1[i] EXCEPT !.ms = @ + dur, !.blocks = Append(@, block)]
        ELSE acc1[i]]
RECURSIVE AggFold(_, _)
AggFold(acc, timeline) ==
  IF timeline = <<>> THEN acc ELSE AggFold(AggAdd(acc, Head(timeline)), Tail(timeline))
\* .sort((a, b) => b.ms - a.ms): a stable sort, the larger ms first
SortInsert(sorted, x) ==
  LET n == Cardinality({i \in DOMAIN sorted : sorted[i].ms >= x.ms})
  IN SubSeq(sorted, 1, n) \o <<x>> \o SubSeq(sorted, n + 1, Len(sorted))
RECURSIVE SortByMs(_, _)
SortByMs(sorted, rest) ==
  IF rest = <<>> THEN sorted ELSE SortByMs(SortInsert(sorted, Head(rest)), Tail(rest))
\* an aggregateTimeline without the final sort
aggregateTimeline_Unsorted(timeline) == AggFold(<<>>, timeline)
aggregateTimeline(timeline) == SortByMs(<<>>, AggFold(<<>>, timeline))

StartMs == 2 * TickMs                       \* Date.now() when the model starts

DayLenTicks == MaxTicks + 4                 \* a local day lasts this many ticks
getDateKey(nowMs) == nowMs \div (DayLenTicks * TickMs)
DayKeys == 0 .. 1

\* ------------------------------------------------------------ the browser
\* Window 1 is a normal window holding tabs 1 and 2; window 2, incognito or
\* normal, holds tab 3.  Tab 2 and window 2 can be closed.
Windows == {1, 2}
Tabs    == {1, 2, 3}
TabWindow(t)    == IF t = 3 THEN 2 ELSE 1
TabIncognito(e, t) == t = 3 /\ e.incog2

VARIABLES
  mem,     \* the script's globals (src/unnamed/part_000:12-21)
  hs,      \* event handlers in flight: position (pc) and locals
  es,      \* endSession promises created by stopTracking
  store,   \* chrome.storage.local
  env,     \* the browser: focus, active tab, URLs, open tabs and windows
  sq,      \* storage calls issued and not yet answered, in issue order
  evq,     \* events the browser has raised and not yet delivered
  now,     \* Date.now()
  nEv,     \* events raised so far
  lim,     \* the schedule explored: handlers overlap or run one at a time; its bounds
  gh,      \* history (ghost) variables: sessions and what was persisted for each
  calc     \* a call of one of the pure helpers: its arguments and its result

vars == <<mem, hs, es, store, env, sq, evq, now, nEv, lim, gh, calc>>

WinExists(e, w) == w = 1 \/ (w = 2 /\ e.win2)
TabExists(e, t) == t = 1 \/ (t = 2 /\ e.tab2) \/ (t = 3 /\ e.win2)
ActiveTab(e, w) == IF w = 1 THEN e.active1 ELSE IF w = 2 /\ e.win2 THEN 3 ELSE NoId
TabUrl(e, t) ==
  IF ~TabExists(e, t) THEN U_GONE
  ELSE IF t = 1 THEN e.url1 ELSE IF t = 2 THEN U_A ELSE U_B

\* ------------------------------------------------------------ local frames
\* The locals of one endSession / persistRunningTotal / startTracking call.
NoDays == [k \in DayKeys |-> [domains |-> <<>>, timeline |-> <<>>]]
NoFrame ==
  [domain |-> NULL, start |-> NoTime, persistedAt |-> NoTime, wasIncognito |-> FALSE,
   windowId |-> NoId, now |-> NoTime, increment |-> 0, key |-> 0, days |-> NoDays,
   sid |-> 0, viaStop |-> FALSE, exclRead |-> {}, keepRead |-> FALSE]

NoHandler == [pc |-> "idle", tabId |-> NoId, windowId |-> NoId, hostname |-> NULL,
              w |-> NoId, f |-> NoFrame,
              failed |-> FALSE,   \* history: a tab or window query of this handler failed
              \* history: the event being handled (type, tab, window) and the session
              \* in memory (id, window, tab) when the listener was invoked
              ev |-> <<"none", NoId, NoId, 0, NoId, NoId>>]
NoEnd == [st |-> "free", f |-> NoFrame]

NoSessionRec == [domain |-> NULL, start |-> NoTime]
NoPending == [domain |-> NULL, start |-> NoTime, persistedAt |-> NoTime,
              windowId |-> NoId, wasIncognito |-> FALSE, sid |-> 0]

InitMem ==
  [lastDomain |-> NULL, lastStartTimestamp |-> NoTime, lastPersistedAt |-> NoTime,
   lastTabId |-> NoId, lastTabIncognito |-> FALSE, lastFocusedWindowId |-> NoId,
   lastTrackedWindowId |-> NoId, incognitoWindowIds |-> {}, isIdle |-> FALSE,
   pendingWrite |-> NoId]

\* no helper call
NoCalc == [op |-> "none", ms |-> 0, g |-> 0, timeline |-> <<>>, r1 |-> 0, r2 |-> 0,
           agg |-> <<>>, url |-> <<>>, host |-> NULL]

InitGhost ==
  [sid |-> 0,            \* id of the session in memory (0: none)
   sess |-> <<>>,        \* one record per session ever installed
   exclTouched |-> FALSE,\* the exclusion list was edited
   stopNoWait |-> FALSE, \* a stopTracking call returned null while a stop's write was in flight
   stopKept |-> FALSE,   \* a stopTracking call returned with the session still in memory
   overwrote |-> FALSE,  \* startTracking replaced a session that was never ended
   dropped |-> FALSE,    \* recovery's endSession cleared a live session it did not persist
   offFocus |-> FALSE,   \* a session was installed for a tab that was not focused+active
   privLeak |-> FALSE,   \* incognito time was written although keepIncognitoData was read off
   exclLeak |-> FALSE,   \* time was written for a domain excluded in the settings the operation read
   startRefused |-> FALSE, \* startTracking returned at line 199
   errThrown |-> FALSE,  \* a failed query's error left an event handler uncaught
   errKept |-> FALSE,    \* a handler whose query failed returned with a session in memory
   closed |-> <<0, 0>>]  \* window 2 was closed: index of that event, and the session then
                         \* tracked on its tab if the window had the focus

\* history of one session
NewSess(hostname, tabId, t, incog) ==
  [domain |-> hostname, start |-> t,
   incog |-> incog,                \* its tab was an incognito tab
   stops |-> 0,                    \* endSession calls stopTracking made for it
   blocks |-> 0,                   \* timeline blocks those calls wrote
   recs |-> 0,                     \* timeline blocks pending-session recovery wrote
   added |-> 0,                    \* ms added to the totals for it (flushes and stop)
   recAdded |-> 0,                 \* ms pending-session recovery added for it
   recEnd |-> NoTime,              \* end of the block recovery wrote for it
   flushes |-> <<>>,               \* Date.now() of each flush that computed a delta
   stopAt |-> NoTime,              \* Date.now() when its stop read the settings
   verdict |-> "none",             \* what its stop or flush decided: persist / excluded / incognito
   ended |-> FALSE,                \* its stop's promise has settled
   reStop |-> FALSE]               \* stopTracking was called again while its stop was in flight

\* ------------------------------------------------------- session tracker
\* The program state threaded through one handler segment: globals, handlers,
\* endSession promises, the storage queue and the history variables.
Cur == [m |-> mem, hs |-> hs, es |-> es, sq |-> sq, g |-> gh, ok |-> TRUE]
Commit(Q) ==
  /\ Q.ok
  /\ mem' = Q.m /\ hs' = Q.hs /\ es' = Q.es /\ sq' = Q.sq /\ gh' = Q.g

\* pcs at which a handler waits for chrome.storage.local
StoragePcs == {"H1", "H3", "H4", "H5", "H6", "H12", "S1", "S3", "P1", "P1x", "P2", "P3"}
TokH(h) == <<"h", h>>
TokE(e) == <<"e", e>>

SetPc(P, h, pc) ==
  [P EXCEPT !.hs[h].pc = pc,
            !.sq = IF pc \in StoragePcs THEN Append(@, TokH(h)) ELSE @]
Finish(P, h) == [P EXCEPT !.hs[h] = NoHandler]

ClearSession(m) ==
  [m EXCEPT !.lastDomain = NULL, !.lastStartTimestamp = NoTime, !.lastPersistedAt = NoTime,
            !.lastTabId = NoId, !.lastTabIncognito = FALSE, !.lastTrackedWindowId = NoId]

FreeEnds(e) == {i \in DOMAIN e : e[i].st = "free"}
MinOf(S) == CHOOSE x \in S : \A y \in S : x <= y

SessUpd(g, s, field, val) ==
  IF s = 0 THEN g ELSE [g EXCEPT !.sess[s] = [@ EXCEPT ![field] = val]]
SessGet(g, s, field, dflt) == IF s = 0 THEN dflt ELSE g.sess[s][field]

\* an endSession that leaves the globals alone until its write is done
EndSessionHead_NoClear(P) == P

\* endSession's synchronous head (lines 93-109), called with an override: the
\* globals are cleared whenever the override names a session.
EndSessionHead(P) == [P EXCEPT !.m = ClearSession(@), !.g.sid = 0]

\* a stopTracking without the test of line 182
StopTracking_NoGuard(P) ==
  LET m == P.m
      e == MinOf(FreeEnds(P.es))
      sessionOverride ==
        [NoFrame EXCEPT !.domain = m.lastDomain, !.start = m.lastStartTimestamp,
                        !.persistedAt = m.lastPersistedAt,
                        !.wasIncognito = m.lastTabIncognito,
                        !.sid = P.g.sid, !.viaStop = TRUE]
  IN IF m.pendingWrite # NoId THEN [P |-> P, w |-> m.pendingWrite]
     ELSE IF FreeEnds(P.es) = {} THEN [P |-> [P EXCEPT !.ok = FALSE], w |-> NoId]
     ELSE [P |-> [EndSessionHead(P) EXCEPT !.es[e] = [st |-> "E1", f |-> sessionOverride],
                                           !.sq = Append(@, TokE(e)),
                                           !.m.pendingWrite = e,
                                           !.g = SessUpd(@, P.g.sid, "stops",
                                                         SessGet(P.g, P.g.sid, "stops", 0) + 1)],
           w |-> e]

StopTracking(P) ==
  LET m == P.m IN
  IF m.lastDomain = NULL \/ m.lastStartTimestamp = NoTime THEN
    \* history: a repeated stop of the latest session while its stop is in flight
    LET s == Len(P.g.sess)
        inFlight == {i \in DOMAIN P.es : P.es[i].st \in {"E1", "E2", "E3"}}
        dup == {i \in inFlight : P.es[i].f.sid = s}
        P1 == [P EXCEPT !.g.stopNoWait = @ \/ inFlight # {}]
    IN [P |-> IF dup # {} THEN [P1 EXCEPT !.g = SessUpd(@, s, "reStop", TRUE)] ELSE P1,
        w |-> NoId]
  ELSE IF m.pendingWrite # NoId THEN
    [P |-> [P EXCEPT !.g.stopKept = TRUE], w |-> m.pendingWrite]
  ELSE IF FreeEnds(P.es) = {} THEN
    [P |-> [P EXCEPT !.ok = FALSE], w |-> NoId]
  ELSE
    LET e == MinOf(FreeEnds(P.es))
        sessionOverride ==
          [NoFrame EXCEPT !.domain = m.lastDomain, !.start = m.lastStartTimestamp,
                          !.persistedAt = m.lastPersistedAt,
                          !.wasIncognito = m.lastTabIncognito,
                          !.sid = P.g.sid, !.viaStop = TRUE]
        Q == EndSessionHead(P)
    IN [P |-> [Q EXCEPT !.es[e] = [st |-> "E1", f |-> sessionOverride],
                        !.sq = Append(@, TokE(e)),
                        !.m.pendingWrite = e,
                        !.g = SessUpd(@, P.g.sid, "stops", SessGet(P.g, P.g.sid, "stops", 0) + 1)],
        w |-> e]

\* endSession after `await getSettings()` (lines 111-124): the verdict and the locals.
EndVerdict(f, settings) ==
  IF ~shouldTrack(f.domain, settings.excludeDomains) THEN "excluded"
  ELSE IF ~settings.keepIncognitoData /\ f.wasIncognito THEN "incognito"
  ELSE "persist"

\* an endSession that files the session under the day it started on
EndAfterSettings_StartDay(f, settings, t) ==
  [f EXCEPT !.now = t,
            !.increment = roundMs(t - Coalesce(f.persistedAt, f.start), settings.timeGranularityMs),
            !.key = getDateKey(f.start),
            !.exclRead = settings.excludeDomains,
            !.keepRead = settings.keepIncognitoData]

EndAfterSettings(f, settings, t) ==
  [f EXCEPT !.now = t,
            !.increment = roundMs(t - Coalesce(f.persistedAt, f.start), settings.timeGranularityMs),
            !.key = getDateKey(t),
            !.exclRead = settings.excludeDomains,
            !.keepRead = settings.keepIncognitoData]

\* day.domains[domain].ms += delta, creating the entry when it is missing
AddMs(domains, d, delta) ==
  [k \in DOMAIN domains \cup {d} |->
     (IF k \in DOMAIN domains THEN domains[k] ELSE 0) + (IF k = d THEN delta ELSE 0)]

\* an endSession whose block starts at the last flush instead of the session's start
EndAfterGet_FromLastFlush(f, days) ==
  [f EXCEPT !.days =
     [days EXCEPT ![f.key] =
        [domains  |-> AddMs(@.domains, f.domain, IF f.increment > 0 THEN f.increment ELSE 0),
         timeline |-> Append(@.timeline, [start |-> Coalesce(f.persistedAt, f.start),
                                          end |-> f.now, domain |-> f.domain])]]]

\* an endSession whose block runs from now back to the session's start
EndAfterGet_Reversed(f, days) ==
  [f EXCEPT !.days =
     [days EXCEPT ![f.key] =
        [domains  |-> AddMs(@.domains, f.domain, IF f.increment > 0 THEN f.increment ELSE 0),
         timeline |-> Append(@.timeline, [start |-> f.now, end |-> f.start, domain |-> f.domain])]]]

\* endSession after `await chrome.storage.local.get({days})` (lines 125-132)
EndAfterGet(f, days) ==
  [f EXCEPT !.days =
     [days EXCEPT ![f.key] =
        [domains  |-> AddMs(@.domains, f.domain, IF f.increment > 0 THEN f.increment ELSE 0),
         timeline |-> Append(@.timeline, [start |-> f.start, end |-> f.now, domain |-> f.domain])]]]

\* chrome.storage.local.set({days, currentSession: null, _pendingSession: null}) (line 133)
EndWrite(st, f) ==
  [st EXCEPT !.days = f.days, !.currentSession = NoSessionRec, !.pendingSession = NoPending]

\* history: what an endSession write persisted
EndGhost(g, f) ==
  LET g1 == SessUpd(g, f.sid, IF f.viaStop THEN "blocks" ELSE "recs",
                    SessGet(g, f.sid, IF f.viaStop THEN "blocks" ELSE "recs", 0) + 1)
      fld == IF f.viaStop THEN "added" ELSE "recAdded"
      g2 == SessUpd(g1, f.sid, fld, SessGet(g1, f.sid, fld, 0)
                                      + (IF f.increment > 0 THEN f.increment ELSE 0))
      g3 == IF f.viaStop THEN g2 ELSE SessUpd(g2, f.sid, "recEnd", f.now)
  IN [g3 EXCEPT !.privLeak = @ \/ (SessGet(g, f.sid, "incog", FALSE) /\ ~f.keepRead),
                !.exclLeak = @ \/ f.domain \in f.exclRead]

Awaiters(P, e) == {h \in DOMAIN P.hs : P.hs[h].w = e}

\* the promise settles: line 137 and the .finally of line 193 both reset pendingWrite
SettleEnd(P, e) ==
  [P EXCEPT !.es[e] = IF Awaiters(P, e) = {} THEN NoEnd ELSE [st |-> "done", f |-> NoFrame],
            !.m.pendingWrite = NoId,
            !.g = SessUpd(@, P.es[e].f.sid, "ended", TRUE)]

MicroPending == \E e \in DOMAIN es : es[e].st = "done"

EndSessionSettings(e) ==
  /\ ~MicroPending
  /\ es[e].st = "E1" /\ sq # <<>> /\ Head(sq) = TokE(e)
  /\ LET P == [Cur EXCEPT !.sq = Tail(@)]
         f == EndAfterSettings(es[e].f, store.settings, now)
         v == EndVerdict(es[e].f, store.settings)
         P1 == [P EXCEPT !.g = SessUpd(SessUpd(@, f.sid, "stopAt", now), f.sid, "verdict", v)]
     IN IF v = "persist"
        THEN Commit([P1 EXCEPT !.es[e] = [st |-> "E2", f |-> f], !.sq = Append(@, TokE(e))])
        ELSE Commit(SettleEnd(P1, e))
  /\ UNCHANGED <<store, env, evq, now, nEv, lim, calc>>

EndSessionGetDays(e) ==
  /\ ~MicroPending
  /\ es[e].st = "E2" /\ sq # <<>> /\ Head(sq) = TokE(e)
  /\ Commit([Cur EXCEPT !.sq = Append(Tail(@), TokE(e)),
                        !.es[e] = [st |-> "E3", f |-> EndAfterGet(es[e].f, store.days)]])
  /\ UNCHANGED <<store, env, evq, now, nEv, lim, calc>>

EndSessionSetDays(e) ==
  /\ ~MicroPending
  /\ es[e].st = "E3" /\ sq # <<>> /\ Head(sq) = TokE(e)
  /\ store' = EndWrite(store, es[e].f)
  /\ Commit(SettleEnd([Cur EXCEPT !.sq = Tail(@), !.g = EndGhost(@, es[e].f)], e))
  /\ UNCHANGED <<env, evq, now, nEv, lim, calc>>

\* endSession's write `chrome.storage.local.set(...)` (line 133) never resolves: nothing
\* is stored, the promise never settles and pendingWrite is never reset
WriteStuck(e) ==
  /\ ~MicroPending
  /\ es[e].st = "E3" /\ sq # <<>> /\ Head(sq) = TokE(e)
  /\ \A i \in DOMAIN es : es[i].st # "stuck"
  /\ Commit([Cur EXCEPT !.sq = Tail(@), !.es[e].st = "stuck"])
  /\ UNCHANGED <<store, env, evq, now, nEv, lim, calc>>

\* ------------------------------------------------ handler segments (sync code)
\* Each operator below is the code that runs from one await to the next.  It takes the
\* program state P and the handler h, and returns the new program state.

HSet(P, h, field, val) == [P EXCEPT !.hs[h] = [@ EXCEPT ![field] = val]]

\* startTracking(hostname, tabId) up to `await getSettings()` (line 198)
StartEntry(P, h, hostname, tabId) ==
  SetPc(HSet(HSet(P, h, "hostname", hostname), h, "tabId", tabId), h, "S1")

RECURSIVE ContOf(_, _, _)

\* const w = stopTracking(); if (w) await w;   then the code at `site`
StopThen(P, h, site) ==
  LET r == StopTracking(P) IN
  IF r.w = NoId THEN ContOf(site, r.P, h)
  ELSE [r.P EXCEPT !.hs[h].pc = site, !.hs[h].w = r.w]

\* handleActiveTab lines 272-274: after the window checks
AfterFocus(P, h) ==
  IF P.hs[h].tabId = NoId THEN Finish(P, h) ELSE SetPc(P, h, "H8")

\* handleActiveTab lines 261-271
FocusCheck(P, h) ==
  LET windowId == P.hs[h].windowId IN
  IF windowId # P.m.lastFocusedWindowId THEN StopThen(P, h, "H7w")
  ELSE IF P.m.lastDomain # NULL /\ P.m.lastTrackedWindowId # NoId
          /\ windowId # P.m.lastTrackedWindowId THEN StopThen(P, h, "H7w")
  ELSE AfterFocus(P, h)

\* handleActiveTab(tabId, windowId) lines 240-243
HandleActiveTab(P, h, tabId, windowId) ==
  LET Q == HSet(HSet(P, h, "tabId", tabId), h, "windowId", windowId) IN
  IF Q.m.lastTabId = NoId /\ Q.m.lastDomain = NULL THEN SetPc(Q, h, "H1")
  ELSE FocusCheck(Q, h)

\* reconcileWithCurrentTab lines 366-369
ReconcileEntry(P, h) ==
  IF P.m.lastDomain = NULL THEN Finish(P, h) ELSE SetPc(P, h, "R1")

\* The code after `if (w) await w` at each stop site.
ContOf(site, P0, h) ==
  LET P == [P0 EXCEPT !.hs[h].w = NoId] IN
  CASE site = "H7w" ->      \* lines 265 / 270
         AfterFocus([P EXCEPT !.m.lastFocusedWindowId = P.hs[h].windowId], h)
    [] site = "H9w" ->      \* lines 286-290
         IF P.hs[h].hostname # NULL /\ P.m.lastFocusedWindowId = P.hs[h].windowId
         THEN StartEntry(P, h, P.hs[h].hostname, P.hs[h].tabId)
         ELSE StopThen(P, h, "H10w")
    [] site = "H10w" ->     \* line 292
         IF P.hs[h].hostname = NULL THEN SetPc(P, h, "H12") ELSE Finish(P, h)
    [] site = "H11w" ->     \* line 297
         SetPc(P, h, "H12")
    [] site = "A1w" ->      \* onTabActivated lines 343-345
         HandleActiveTab([P EXCEPT !.m.lastFocusedWindowId = P.hs[h].windowId], h,
                         P.hs[h].tabId, P.hs[h].windowId)
    [] site = "F1w" ->      \* handleWindowFocus line 314
         SetPc(P, h, "F2")
    [] site = "U2w" ->      \* onTabUpdated line 362
         StartEntry(P, h, P.hs[h].hostname, P.hs[h].tabId)
    [] site = "R2w" ->      \* reconcileWithCurrentTab lines 373-374
         SetPc([P EXCEPT !.m.lastFocusedWindowId = P.hs[h].windowId], h, "R3")
    [] site = "R5w" ->      \* reconcileWithCurrentTab line 382
         IF P.hs[h].tabId # NoId
         THEN HandleActiveTab(P, h, P.hs[h].tabId, P.m.lastFocusedWindowId)
         ELSE Finish(P, h)
    [] site = "T2w" ->      \* onTabRemoved line 401
         SetPc(P, h, "T3")
    [] site = "X1w" ->      \* windows.onRemoved line 422
         Finish(P, h)

AwaitPcs == {"H7w", "H9w", "H10w", "H11w", "A1w", "F1w", "U2w", "R2w", "R5w", "T2w", "X1w"}

\* ---- event handlers: the code up to the first await
FreeHandlers == {h \in DOMAIN hs : hs[h].pc = "idle"}

onTabActivated(P, h, tabId, windowId) ==
  LET Q == HSet(HSet(P, h, "tabId", tabId), h, "windowId", windowId) IN
  IF windowId # Q.m.lastFocusedWindowId THEN StopThen(Q, h, "A1w")
  ELSE HandleActiveTab(Q, h, tabId, windowId)

handleWindowFocus(P, h, windowId) ==
  IF windowId = WINDOW_ID_NONE THEN
    Finish([StopTracking(P).P EXCEPT !.m.lastFocusedWindowId = NoId], h)
  ELSE
    LET wasFocused == P.m.lastFocusedWindowId
        Q == HSet([P EXCEPT !.m.lastFocusedWindowId = windowId], h, "windowId", windowId)
    IN IF wasFocused # windowId THEN StopThen(Q, h, "F1w") ELSE ContOf("F1w", Q, h)

onIdleStateChange(P, h, nowIdle) ==
  IF nowIdle /\ ~P.m.isIdle THEN
    Finish(StopTracking([P EXCEPT !.m.isIdle = TRUE]).P, h)
  ELSE IF ~nowIdle /\ P.m.isIdle THEN
    SetPc([P EXCEPT !.m.isIdle = FALSE], h, "I1")
  ELSE Finish(P, h)

onTabUpdated(P, h, tabId, url) ==
  SetPc(HSet(HSet(P, h, "tabId", tabId), h, "hostname", hostnameFromUrl(url)), h, "U1")

onTabRemoved(P, h, tabId) == SetPc(HSet(P, h, "tabId", tabId), h, "T1")

onWindowRemoved(P, h, windowId) ==
  IF windowId \in P.m.incognitoWindowIds THEN
    LET Q == [P EXCEPT !.m.incognitoWindowIds = @ \ {windowId}] IN
    IF Q.m.lastDomain # NULL
       /\ (windowId = Q.m.lastFocusedWindowId \/ windowId = Q.m.lastTrackedWindowId)
    THEN StopThen(Q, h, "X1w")
    ELSE Finish(Q, h)
  ELSE Finish(P, h)

\* alarms.onAlarm: persistRunningTotal's guard (line 145), then reconcileWithCurrentTab
onAlarm(P, h) ==
  IF P.m.lastDomain = NULL \/ P.m.lastStartTimestamp = NoTime THEN ReconcileEntry(P, h)
  ELSE SetPc(P, h, "P1")

\* ------------------------------------------------------------- the actions
HReady(h, pc) ==
  /\ ~MicroPending
  /\ hs[h].pc = pc
  /\ pc \in StoragePcs => (sq # <<>> /\ Head(sq) = TokH(h))
Pop == [Cur EXCEPT !.sq = Tail(@)]

NewSession(g, hostname, tabId, t, e) ==
  [g EXCEPT !.sid = Len(g.sess) + 1,
            !.sess = Append(@, NewSess(hostname, tabId, t, TabIncognito(e, tabId))),
            !.overwrote = @ \/ g.sid # 0,
            !.offFocus = @ \/ ~(e.focused = TabWindow(tabId) /\ TabExists(e, tabId)
                                /\ ActiveTab(e, TabWindow(tabId)) = tabId)]

\* a startTracking that leaves lastPersistedAt as it was
StartInstall_NoFlushTime(P, h, t, e) ==
  LET hostname == P.hs[h].hostname
      tabId == P.hs[h].tabId
      Q == [P EXCEPT !.m.lastDomain = hostname, !.m.lastStartTimestamp = t,
                     !.m.lastTabId = tabId,
                     !.g = NewSession(@, hostname, tabId, t, e),
                     !.hs[h].f = [NoFrame EXCEPT !.now = t, !.sid = Len(P.g.sess) + 1]]
  IN IF tabId # NoId THEN SetPc(Q, h, "S2")
     ELSE SetPc([Q EXCEPT !.m.lastTabIncognito = FALSE,
                          !.hs[h].f.windowId = Q.m.lastTrackedWindowId], h, "S3")

\* startTracking lines 198-206: settings read, the session installed
StartInstall(P, h, t, e) ==
  LET hostname == P.hs[h].hostname
      tabId == P.hs[h].tabId
      Q == [P EXCEPT !.m.lastDomain = hostname, !.m.lastStartTimestamp = t,
                     !.m.lastPersistedAt = t, !.m.lastTabId = tabId,
                     !.g = NewSession(@, hostname, tabId, t, e),
                     !.hs[h].f = [NoFrame EXCEPT !.now = t, !.sid = Len(P.g.sess) + 1]]
  IN IF tabId # NoId THEN SetPc(Q, h, "S2")
     ELSE SetPc([Q EXCEPT !.m.lastTabIncognito = FALSE,
                          !.hs[h].f.windowId = Q.m.lastTrackedWindowId], h, "S3")

StartTrackingSettings(h) ==
  /\ HReady(h, "S1")
  /\ IF ~shouldTrack(hs[h].hostname, store.settings.excludeDomains)
     THEN Commit(Finish([Pop EXCEPT !.g.startRefused = TRUE], h))
     ELSE Commit(StartInstall(Pop, h, now, env))
  /\ UNCHANGED <<store, env, evq, now, nEv, lim, calc>>

\* startTracking lines 207-226: chrome.tabs.get(tabId).catch(() => null)
StartTrackingTabGet(h) ==
  /\ HReady(h, "S2")
  /\ LET tabId == hs[h].tabId
         found == TabExists(env, tabId)
         inc == found /\ TabIncognito(env, tabId)
         win == IF found THEN TabWindow(tabId) ELSE NoId
     IN Commit(SetPc([Cur EXCEPT !.m.lastTabIncognito = inc,
                                 !.m.lastTrackedWindowId = win,
                                 !.m.incognitoWindowIds = IF inc THEN @ \cup {win} ELSE @,
                                 !.hs[h].f.windowId = win,
                                 !.hs[h].f.wasIncognito = inc], h, "S3"))
  /\ UNCHANGED <<store, env, evq, now, nEv, lim, calc>>

\* startTracking lines 227-230
StartTrackingSet(h) ==
  /\ HReady(h, "S3")
  /\ LET f == hs[h].f IN
     store' = [store EXCEPT
       !.currentSession = [domain |-> hs[h].hostname, start |-> f.now],
       !.pendingSession = [domain |-> hs[h].hostname, start |-> f.now, persistedAt |-> f.now,
                           windowId |-> f.windowId, wasIncognito |-> f.wasIncognito,
                           sid |-> f.sid]]
  /\ Commit(Finish(Pop, h))
  /\ UNCHANGED <<env, evq, now, nEv, lim, calc>>

\* ---- persistRunningTotal (lines 144-179), then reconcileWithCurrentTab
PersistClear(m) ==      \* lines 148-151
  [m EXCEPT !.lastDomain = NULL, !.lastStartTimestamp = NoTime, !.lastPersistedAt = NoTime,
            !.lastTabId = NoId]

Flushed(g, t) == SessUpd(g, g.sid, "flushes", Append(SessGet(g, g.sid, "flushes", <<>>), t))

PersistSettings(h) ==
  /\ HReady(h, "P1")
  /\ LET P == Pop
         settings == store.settings
         from == Coalesce(P.m.lastPersistedAt, P.m.lastStartTimestamp)
         delta == roundMs(now - from, settings.timeGranularityMs)
     IN IF ~shouldTrack(P.m.lastDomain, settings.excludeDomains) THEN
          Commit(SetPc([P EXCEPT !.m = PersistClear(@),
                                 !.g = [SessUpd(@, P.g.sid, "verdict", "excluded")
                                          EXCEPT !.sid = 0]], h, "P1x"))
        ELSE IF ~settings.keepIncognitoData /\ P.m.lastTabIncognito THEN
          Commit(ReconcileEntry(P, h))
        ELSE IF delta <= 0 THEN
          Commit(ReconcileEntry([P EXCEPT !.m.lastPersistedAt = now,
                                          !.g = Flushed(@, now)], h))
        ELSE
          Commit(SetPc([P EXCEPT !.g = Flushed(@, now),
                                 !.hs[h].f =
                          [NoFrame EXCEPT !.now = now, !.increment = delta,
                                          !.key = getDateKey(now), !.sid = P.g.sid,
                                          !.exclRead = settings.excludeDomains,
                                          !.keepRead = settings.keepIncognitoData]],
                       h, "P2"))
  /\ UNCHANGED <<store, env, evq, now, nEv, lim, calc>>

PersistClearSet(h) ==    \* line 152
  /\ HReady(h, "P1x")
  /\ store' = [store EXCEPT !.currentSession = NoSessionRec]
  /\ Commit(ReconcileEntry(Pop, h))
  /\ UNCHANGED <<env, evq, now, nEv, lim, calc>>

PersistGetDays(h) ==     \* lines 165-171
  /\ HReady(h, "P2")
  /\ LET f == hs[h].f
         days == [store.days EXCEPT ![f.key].domains = AddMs(@, mem.lastDomain, f.increment)]
     IN Commit(SetPc([Pop EXCEPT !.m.lastPersistedAt = f.now,
                                 !.hs[h].f.days = days,
                                 !.hs[h].f.domain = mem.lastDomain], h, "P3"))
  /\ UNCHANGED <<store, env, evq, now, nEv, lim, calc>>

PersistGhost(g, f) ==
  \* the delta counts for the session when it went to the session's own domain
  LET own == f.domain = SessGet(g, f.sid, "domain", NULL)
      g1 == SessUpd(g, f.sid, "added",
                    SessGet(g, f.sid, "added", 0) + (IF own THEN f.increment ELSE 0)) IN
  [g1 EXCEPT !.privLeak = @ \/ (SessGet(g, f.sid, "incog", FALSE) /\ ~f.keepRead),
             !.exclLeak = @ \/ f.domain \in f.exclRead]

PersistSetDays(h) ==     \* lines 172-178
  /\ HReady(h, "P3")
  /\ store' = [store EXCEPT !.days = hs[h].f.days]
  /\ Commit(ReconcileEntry([Pop EXCEPT !.m.pendingWrite = NoId,
                                       !.g = PersistGhost(@, hs[h].f),
                                       !.hs[h].f = NoFrame], h))
  /\ UNCHANGED <<env, evq, now, nEv, lim, calc>>

\* reconcileWithCurrentTab line 369: chrome.windows.getLastFocused()
ReconcileLastFocused(h) ==
  /\ HReady(h, "R1")
  /\ LET win == env.lastFoc IN
     IF win # mem.lastFocusedWindowId
     THEN Commit(StopThen(HSet(Cur, h, "windowId", win), h, "R2w"))
     ELSE Commit(SetPc(HSet(Cur, h, "windowId", mem.lastFocusedWindowId), h, "R4"))
  /\ UNCHANGED <<store, env, evq, now, nEv, lim, calc>>

ReconcileQueryNew(h) ==      \* lines 374-376
  /\ HReady(h, "R3")
  /\ LET tab == ActiveTab(env, hs[h].windowId) IN
     IF tab # NoId THEN Commit(HandleActiveTab(Cur, h, tab, hs[h].windowId))
     ELSE Commit(Finish(Cur, h))
  /\ UNCHANGED <<store, env, evq, now, nEv, lim, calc>>

ReconcileQuerySame(h) ==     \* lines 378-383
  /\ HReady(h, "R4")
  /\ LET tab == ActiveTab(env, hs[h].windowId) IN
     IF tab = NoId \/ tab # mem.lastTabId
     THEN Commit(StopThen(HSet(Cur, h, "tabId", tab), h, "R5w"))
     ELSE Commit(Finish(Cur, h))
  /\ UNCHANGED <<store, env, evq, now, nEv, lim, calc>>

\* ---- handleActiveTab (lines 240-299)
\* lines 243-245: the durable pending session is read
ActiveTabGetPending(h) ==
  /\ HReady(h, "H1")
  /\ LET pending == store.pendingSession IN
     IF pending.domain # NULL /\ pending.start # NoTime /\ pending.windowId # NoId
        /\ pending.windowId # hs[h].windowId
     THEN Commit(SetPc([Pop EXCEPT !.hs[h].f =
                          [NoFrame EXCEPT !.domain = pending.domain, !.start = pending.start,
                                          !.persistedAt = pending.persistedAt,
                                          !.windowId = pending.windowId,
                                          !.wasIncognito = pending.wasIncognito,
                                          !.sid = pending.sid]], h, "H2"))
     ELSE Commit(FocusCheck(Pop, h))
  /\ UNCHANGED <<store, env, evq, now, nEv, lim, calc>>

\* lines 246-255: chrome.windows.get(pending.windowId); endSession(override) begins
ActiveTabWindowGet(h) ==
  /\ HReady(h, "H2")
  /\ IF ~WinExists(env, hs[h].f.windowId)
     THEN Commit(SetPc(EndSessionHead([Cur EXCEPT !.g.dropped = @ \/ gh.sid # 0]), h, "H3"))
     ELSE Commit(FocusCheck([Cur EXCEPT !.hs[h].f = NoFrame], h))
  /\ UNCHANGED <<store, env, evq, now, nEv, lim, calc>>

\* the awaited endSession(override) of line 249: lines 111-124
RecoverSettings(h) ==
  /\ HReady(h, "H3")
  /\ LET f == EndAfterSettings(hs[h].f, store.settings, now)
         v == EndVerdict(hs[h].f, store.settings)
     IN CASE v = "persist"   -> Commit(SetPc([Pop EXCEPT !.hs[h].f = f], h, "H4"))
          [] v = "incognito" -> Commit(SetPc([Pop EXCEPT !.m.pendingWrite = NoId,
                                                         !.hs[h].f = NoFrame], h, "H6"))
          [] v = "excluded"  -> Commit(SetPc([Pop EXCEPT !.hs[h].f = NoFrame], h, "H6"))
  /\ UNCHANGED <<store, env, evq, now, nEv, lim, calc>>

RecoverGetDays(h) ==         \* lines 125-132
  /\ HReady(h, "H4")
  /\ Commit(SetPc([Pop EXCEPT !.hs[h].f = EndAfterGet(@, store.days)], h, "H5"))
  /\ UNCHANGED <<store, env, evq, now, nEv, lim, calc>>

RecoverSetDays(h) ==         \* lines 133-137
  /\ HReady(h, "H5")
  /\ store' = EndWrite(store, hs[h].f)
  /\ Commit(SetPc([Pop EXCEPT !.m.pendingWrite = NoId,
                              !.g = EndGhost(@, hs[h].f),
                              !.hs[h].f = NoFrame], h, "H6"))
  /\ UNCHANGED <<env, evq, now, nEv, lim, calc>>

RecoverClearPending(h) ==    \* lines 256-257
  /\ HReady(h, "H6")
  /\ store' = [store EXCEPT !.pendingSession = NoPending]
  /\ Commit(FocusCheck([Pop EXCEPT !.m.lastFocusedWindowId = hs[h].windowId], h))
  /\ UNCHANGED <<env, evq, now, nEv, lim, calc>>

\* lines 274-293 (and the catch of 294-296 when the tab is gone): chrome.tabs.get(tabId)
ActiveTabGet(h) ==
  /\ HReady(h, "H8")
  /\ LET tabId == hs[h].tabId
         url == TabUrl(env, tabId)
         hostname == hostnameFromUrl(url)
     IN IF ~TabExists(env, tabId)
        THEN Commit(StopThen(HSet(Cur, h, "failed", TRUE), h, "H11w"))
        ELSE IF tabId # mem.lastTabId /\ mem.lastDomain # NULL
                /\ (hostname = mem.lastDomain \/ (hostname = NULL /\ tabStillLoading(url)))
        THEN Commit(Finish([Cur EXCEPT !.m.lastTabId = tabId], h))
        ELSE IF tabId # mem.lastTabId
        THEN Commit(StopThen(HSet(Cur, h, "hostname", hostname), h, "H9w"))
        ELSE Commit(ContOf("H9w", HSet(Cur, h, "hostname", hostname), h))
  /\ UNCHANGED <<store, env, evq, now, nEv, lim, calc>>

ClearLiveIndicator(h) ==     \* lines 292 / 297
  /\ HReady(h, "H12")
  /\ store' = [store EXCEPT !.currentSession = NoSessionRec]
  /\ Commit(Finish([Pop EXCEPT !.g.errKept = @ \/ (hs[h].failed /\ mem.lastDomain # NULL)], h))
  /\ UNCHANGED <<env, evq, now, nEv, lim, calc>>

\* ---- replies awaited by the event handlers
WindowFocusQuery(h) ==       \* handleWindowFocus lines 314-315
  /\ HReady(h, "F2")
  /\ LET tab == ActiveTab(env, hs[h].windowId) IN
     IF tab # NoId THEN Commit(HandleActiveTab(Cur, h, tab, hs[h].windowId))
     ELSE Commit(Finish(Cur, h))
  /\ UNCHANGED <<store, env, evq, now, nEv, lim, calc>>

\* onIdleStateChange lines 329-331 and onTabRemoved lines 401-403: getLastFocused()
LastFocusedGet(h) ==
  /\ hs[h].pc \in {"I1", "T3"}
  /\ HReady(h, hs[h].pc)
  /\ Commit(SetPc(HSet([Cur EXCEPT !.m.lastFocusedWindowId = env.lastFoc], h,
                       "windowId", env.lastFoc), h, IF hs[h].pc = "I1" THEN "I2" ELSE "T4"))
  /\ UNCHANGED <<store, env, evq, now, nEv, lim, calc>>

\* onIdleStateChange lines 332-333 and onTabRemoved lines 404-405
LastFocusedQuery(h) ==
  /\ hs[h].pc \in {"I2", "T4"}
  /\ HReady(h, hs[h].pc)
  /\ LET tab == ActiveTab(env, hs[h].windowId) IN
     IF tab # NoId THEN Commit(HandleActiveTab(Cur, h, tab, hs[h].windowId))
     ELSE Commit(Finish(Cur, h))
  /\ UNCHANGED <<store, env, evq, now, nEv, lim, calc>>

\* onTabUpdated lines 350-362: tabs.query({active: true, currentWindow: true})
TabUpdatedQuery(h) ==
  /\ HReady(h, "U1")
  /\ LET active == ActiveTab(env, env.lastFoc)
         tabId == hs[h].tabId
         hostname == hs[h].hostname
     IN IF active = NoId \/ active # tabId THEN Commit(Finish(Cur, h))
        ELSE IF TabWindow(active) # mem.lastFocusedWindowId THEN Commit(Finish(Cur, h))
        ELSE IF hostname = NULL THEN Commit(Finish(StopTracking(Cur).P, h))
        ELSE IF hostname = mem.lastDomain /\ tabId = mem.lastTabId THEN Commit(Finish(Cur, h))
        ELSE Commit(StopThen(Cur, h, "U2w"))
  /\ UNCHANGED <<store, env, evq, now, nEv, lim, calc>>

\* onTabRemoved lines 391-398: chrome.tabs.get(tabId) of the removed tab
TabRemovedGet(h) ==
  /\ HReady(h, "T1")
  /\ IF hs[h].tabId = mem.lastTabId THEN Commit(StopThen(Cur, h, "T2w"))
     ELSE Commit(Finish(Cur, h))
  /\ UNCHANGED <<store, env, evq, now, nEv, lim, calc>>

\* ---- a tab or window query is rejected
\* the handler returns after its query failed
Failed(P, h) == Finish([P EXCEPT !.g.errKept = @ \/ P.m.lastDomain # NULL], h)

QueryPcs == {"H8", "F2", "I1", "I2", "T3", "T4", "U1", "R1", "R3", "R4"}

QueryFails(h) ==
  /\ hs[h].pc \in QueryPcs
  /\ HReady(h, hs[h].pc)
  /\ LET pc == hs[h].pc IN
     CASE pc = "H8" ->                 \* handleActiveTab's catch, lines 294-297
            Commit(StopThen(HSet(Cur, h, "failed", TRUE), h, "H11w"))
       [] pc = "F2" ->                 \* handleWindowFocus's catch, lines 316-318
            Commit(Failed(StopTracking(Cur).P, h))
       [] pc \in {"R1", "R3", "R4"} -> \* reconcileWithCurrentTab's catch, lines 384-386
            Commit(Failed(StopTracking(Cur).P, h))
       [] pc \in {"I1", "I2"} ->       \* onIdleStateChange's empty catch, line 335
            Commit(Failed(Cur, h))
       [] pc \in {"T3", "T4"} ->       \* onTabRemoved's empty catch, line 407
            Commit(Failed(Cur, h))
       [] pc = "U1" ->                 \* onTabUpdated line 350: no try around the query
            Commit(Failed([Cur EXCEPT !.g.errThrown = TRUE], h))
  /\ UNCHANGED <<store, env, evq, now, nEv, lim, calc>>

\* a handler that awaited a stop's promise continues once the promise has settled
ResumeAfterStop(h) ==
  /\ hs[h].pc \in AwaitPcs
  /\ hs[h].w # NoId /\ es[hs[h].w].st = "done"
  /\ LET e == hs[h].w
         P == [Cur EXCEPT !.es[e] = IF Awaiters(Cur, e) = {h} THEN NoEnd ELSE @]
     IN Commit(ContOf(hs[h].pc, P, h))
  /\ UNCHANGED <<store, env, evq, now, nEv, lim, calc>>

\* ------------------------------------------------------ the browser's events
\* no handler and no endSession is in flight
\* (a promise that never settles, and a handler awaiting it, never run again)
Idle ==
  /\ \A h \in DOMAIN hs :
       \/ hs[h].pc = "idle"
       \/ hs[h].pc \in AwaitPcs /\ hs[h].w # NoId /\ es[hs[h].w].st = "stuck"
  /\ \A e \in DOMAIN es : es[e].st \in {"free", "stuck"}

Urls1 == {U_A, U_B, U_INT, U_BLANK}      \* where tab 1 can be
DeepUrls == {U_A, U_B}                   \* ... in the longer overlapping runs

Ev(type, tabId, windowId, url, idle) ==
  [type |-> type, tabId |-> tabId, windowId |-> windowId, url |-> url, nowIdle |-> idle]

CanRaise == evq = <<>> /\ nEv < lim.events /\ ~MicroPending /\ (lim.overlap \/ Idle)
Raise(evs) == evq' = evs /\ nEv' = nEv + 1 /\ UNCHANGED <<mem, hs, es, store, sq, now, lim, calc, gh>>

\* the user switches between tab 1 and tab 2 of window 1
EnvActivateTab ==
  /\ CanRaise /\ env.tab2
  /\ LET t == IF env.active1 = 1 THEN 2 ELSE 1 IN
     /\ env' = [env EXCEPT !.active1 = t]
     /\ Raise(<<Ev("activated", t, 1, U_EMPTY, FALSE)>>)

\* tab 1 navigates
EnvNavigate ==
  /\ CanRaise
  /\ \E u \in lim.urls \ {env.url1} :
       /\ env' = [env EXCEPT !.url1 = u]
       /\ Raise(<<Ev("updated", 1, 1, u, FALSE)>>)

\* focus moves to another window, or leaves the browser (in the longer runs: only
\* away from window 1)
EnvFocus ==
  /\ CanRaise /\ (lim.refocus \/ (env.focused = 1 /\ env.lastFoc = 1))
  /\ \E w \in {NoId} \cup {x \in Windows : WinExists(env, x)} :
       /\ w # env.focused
       /\ env' = [env EXCEPT !.focused = w, !.lastFoc = IF w = NoId THEN @ ELSE w]
       /\ Raise(<<Ev("focus", NoId, IF w = NoId THEN WINDOW_ID_NONE ELSE w, U_EMPTY, FALSE)>>)

EnvIdle ==
  /\ CanRaise
  /\ env' = [env EXCEPT !.idle = ~@]
  /\ Raise(<<Ev("idle", NoId, NoId, U_EMPTY, ~env.idle)>>)

\* tab 2 is closed; when it was the active tab, tab 1 becomes active
EnvCloseTab ==
  /\ CanRaise /\ env.tab2
  /\ env' = [env EXCEPT !.tab2 = FALSE, !.active1 = 1]
  /\ IF env.active1 = 2
     THEN Raise(<<Ev("activated", 1, 1, U_EMPTY, FALSE), Ev("removed", 2, 1, U_EMPTY, FALSE)>>)
     ELSE Raise(<<Ev("removed", 2, 1, U_EMPTY, FALSE)>>)

\* window 2 is closed; focus, if it had it, falls to window 1
EnvCloseWindow ==
  /\ CanRaise /\ env.win2
  /\ env' = [env EXCEPT !.win2 = FALSE, !.lastFoc = 1,
                        !.focused = IF @ = 2 THEN 1 ELSE @]
  /\ evq' = <<Ev("removed", 3, 2, U_EMPTY, FALSE), Ev("winRemoved", NoId, 2, U_EMPTY, FALSE)>>
            \o (IF env.focused = 2 THEN <<Ev("focus", NoId, 1, U_EMPTY, FALSE)>> ELSE <<>>)
  /\ nEv' = nEv + 1
  /\ gh' = [gh EXCEPT !.closed = <<nEv + 1, IF mem.lastTabId = 3 /\ env.focused = 2
                                             THEN gh.sid ELSE 0>>]
  /\ UNCHANGED <<mem, hs, es, store, sq, now, lim, calc>>

\* the periodic alarm fires (in the longer runs: only while no handler is in flight)
EnvAlarm ==
  /\ CanRaise /\ (lim.alarmOverlap \/ Idle)
  /\ Raise(<<Ev("alarm", NoId, NoId, U_EMPTY, FALSE)>>)
  /\ UNCHANGED env

\* the user saves the settings dialog: one domain enters or leaves the exclusion list
SettingsExclude ==
  /\ CanRaise
  /\ \E d \in Domains :
       store' = [store EXCEPT !.settings.excludeDomains =
                   IF d \in @ THEN @ \ {d} ELSE @ \cup {d}]
  /\ nEv' = nEv + 1
  /\ gh' = [gh EXCEPT !.exclTouched = TRUE]
  /\ UNCHANGED <<mem, hs, es, env, sq, evq, now, lim, calc>>

SettingsKeepIncognito ==
  /\ CanRaise
  /\ store' = [store EXCEPT !.settings.keepIncognitoData = ~@]
  /\ nEv' = nEv + 1
  /\ UNCHANGED <<mem, hs, es, env, sq, evq, now, lim, calc, gh>>

\* Handlers run for milliseconds and the clock counts half seconds: it advances
\* between bursts of activity.
Quiescent == evq = <<>> /\ Idle

Tick ==
  /\ Quiescent
  /\ now < StartMs + lim.ticks * TickMs
  /\ now' = now + TickMs
  /\ UNCHANGED <<mem, hs, es, store, env, sq, evq, nEv, lim, calc, gh>>

\* The browser stops the idle service worker; the next event loads it afresh:
\* globals at their initial values, storage kept.
WorkerRestart ==
  /\ Quiescent /\ nEv < lim.events
  /\ mem # InitMem
  /\ mem' = InitMem
  /\ gh' = [gh EXCEPT !.sid = 0]
  /\ nEv' = nEv + 1
  /\ hs' = [h \in DOMAIN hs |-> NoHandler]
  /\ es' = [e \in DOMAIN es |-> NoEnd]
  /\ UNCHANGED <<store, env, sq, evq, now, lim, calc>>

\* ---- delivery: the handler's code up to its first await
CanDeliver(type) ==
  /\ ~MicroPending
  /\ lim.overlap \/ Idle
  /\ evq # <<>> /\ Head(evq).type = type
  /\ FreeHandlers # {}
Delivered(Q) ==
  /\ Cardinality({h \in DOMAIN hs : Q.hs[h].pc # "idle"}) <= MaxHandlers
  /\ Commit(Q) /\ evq' = Tail(evq) /\ UNCHANGED <<store, env, now, nEv, lim, calc>>
Slot == MinOf(FreeHandlers)
\* the window of the tab the session in memory is tracked on
SessionWindow(m) == IF m.lastTabId = NoId THEN NoId ELSE TabWindow(m.lastTabId)
\* the listener is invoked with the event at the head of the queue
Invoked ==
  HSet(Cur, Slot, "ev", <<Head(evq).type, Head(evq).tabId, Head(evq).windowId,
                          gh.sid, SessionWindow(mem), mem.lastTabId>>)

DeliverTabActivated ==
  /\ CanDeliver("activated")
  /\ Delivered(onTabActivated(Invoked, Slot, Head(evq).tabId, Head(evq).windowId))

DeliverTabUpdated ==
  /\ CanDeliver("updated")
  /\ Delivered(onTabUpdated(Invoked, Slot, Head(evq).tabId, Head(evq).url))

DeliverTabRemoved ==
  /\ CanDeliver("removed")
  /\ Delivered(onTabRemoved(Invoked, Slot, Head(evq).tabId))

DeliverWindowRemoved ==
  /\ CanDeliver("winRemoved")
  /\ Delivered(onWindowRemoved(Invoked, Slot, Head(evq).windowId))

DeliverWindowFocus ==
  /\ CanDeliver("focus")
  /\ Delivered(handleWindowFocus(Invoked, Slot, Head(evq).windowId))

DeliverIdle ==
  /\ CanDeliver("idle")
  /\ Delivered(onIdleStateChange(Invoked, Slot, Head(evq).nowIdle))

DeliverAlarm ==
  /\ CanDeliver("alarm")
  /\ Delivered(onAlarm(Invoked, Slot))

\* ------------------------------------------------------------ initial states
InitEnv == [focused |-> 1, lastFoc |-> 1, active1 |-> 1, url1 |-> U_A,
            tab2 |-> TRUE, win2 |-> TRUE, incog2 |-> TRUE, idle |-> FALSE]
\* window 2 is an incognito window or a second normal window
StartEnvs == {[InitEnv EXCEPT !.incog2 = b] : b \in BOOLEAN}

InitSettings == [excludeDomains |-> {}, timeGranularityMs |-> DEFAULT_GRANULARITY_MS,
                 keepIncognitoData |-> FALSE]
\* the settings a behaviour starts with: installed defaults, or "keep incognito data" on
StartSettings == {[InitSettings EXCEPT !.keepIncognitoData = k] : k \in BOOLEAN}

\* the worker has just been loaded: nothing tracked, nothing stored
InitFresh ==
  /\ mem = InitMem
  /\ \E st \in StartSettings :
       store = [settings |-> st, days |-> NoDays,
                currentSession |-> NoSessionRec, pendingSession |-> NoPending]
  /\ gh = InitGhost

\* onInstalled (lines 612-633) ran at t0: the active tab of the focused window is tracked
InitInstalled(t0) ==
  /\ mem = [InitMem EXCEPT !.lastDomain = "a.com", !.lastStartTimestamp = t0,
                           !.lastPersistedAt = t0, !.lastTabId = 1,
                           !.lastFocusedWindowId = 1, !.lastTrackedWindowId = 1]
  /\ \E st \in StartSettings :
       store = [settings |-> st, days |-> NoDays,
                currentSession |-> [domain |-> "a.com", start |-> t0],
                pendingSession |-> [domain |-> "a.com", start |-> t0,
                                    persistedAt |-> t0, windowId |-> 1,
                                    wasIncognito |-> FALSE, sid |-> 1]]
  /\ gh = [InitGhost EXCEPT !.sid = 1,
             !.sess = <<NewSess("a.com", 1, t0, FALSE)>>]

InitRest ==
  /\ hs = [h \in 1 .. MaxHandlers |-> NoHandler]
  /\ es = [e \in 1 .. MaxEnds |-> NoEnd]
  /\ env \in StartEnvs
  /\ sq = <<>> /\ evq = <<>>
  /\ now = StartMs
  /\ nEv = 0
  /\ calc = NoCalc

\* handlers overlap at their awaits
Init ==
  /\ InitFresh \/ InitInstalled(StartMs)
  /\ InitRest
  /\ lim = [overlap |-> TRUE, events |-> MaxEvents, ticks |-> MaxTicks, urls |-> Urls1,
          refocus |-> TRUE, alarmOverlap |-> TRUE]
\* each event is handled to completion before the next one is raised
InitSeq ==
  /\ InitFresh \/ InitInstalled(StartMs)
  /\ InitRest
  /\ lim = [overlap |-> FALSE, events |-> SeqEvents, ticks |-> SeqTicks, urls |-> Urls1,
          refocus |-> TRUE, alarmOverlap |-> TRUE]
\* overlapping handlers over longer runs: installed one tick ago with the default
\* settings, the session still running
InitDeep ==
  /\ InitInstalled(StartMs - TickMs) /\ store.settings = InitSettings
  /\ InitRest /\ env = InitEnv
  /\ lim = [overlap |-> TRUE, events |-> DeepEvents, ticks |-> DeepTicks, urls |-> DeepUrls,
          refocus |-> FALSE, alarmOverlap |-> FALSE]

Next ==
  \/ EnvActivateTab \/ EnvNavigate \/ EnvFocus \/ EnvIdle \/ EnvCloseTab \/ EnvCloseWindow
  \/ EnvAlarm \/ SettingsExclude \/ SettingsKeepIncognito \/ Tick \/ WorkerRestart
  \/ DeliverTabActivated \/ DeliverTabUpdated \/ DeliverTabRemoved \/ DeliverWindowRemoved
  \/ DeliverWindowFocus \/ DeliverIdle \/ DeliverAlarm
  \/ \E e \in 1 .. MaxEnds :
       EndSessionSettings(e) \/ EndSessionGetDays(e) \/ EndSessionSetDays(e)
  \/ \E h \in DOMAIN hs :
       \/ StartTrackingSettings(h) \/ StartTrackingTabGet(h) \/ StartTrackingSet(h)
       \/ PersistSettings(h) \/ PersistClearSet(h) \/ PersistGetDays(h) \/ PersistSetDays(h)
       \/ ReconcileLastFocused(h) \/ ReconcileQueryNew(h) \/ ReconcileQuerySame(h)
       \/ ActiveTabGetPending(h) \/ ActiveTabWindowGet(h) \/ RecoverSettings(h)
       \/ RecoverGetDays(h) \/ RecoverSetDays(h) \/ RecoverClearPending(h)
       \/ ActiveTabGet(h) \/ ClearLiveIndicator(h)
       \/ WindowFocusQuery(h) \/ LastFocusedGet(h) \/ LastFocusedQuery(h)
       \/ TabUpdatedQuery(h) \/ TabRemovedGet(h) \/ ResumeAfterStop(h)

Spec == Init /\ [][Next]_vars
SpecSeq == InitSeq /\ [][Next]_vars
SpecDeep == InitDeep /\ [][Next]_vars

\* the same, with alarms that fire while other handlers are in flight
InitFlush ==
  /\ InitInstalled(StartMs - TickMs) /\ store.settings = InitSettings
  \* one more slot, for a handler that returns without awaiting anything
  /\ hs = [h \in 1 .. MaxHandlers + 1 |-> NoHandler]
  /\ es = [e \in 1 .. MaxEnds |-> NoEnd]
  /\ env = InitEnv
  /\ sq = <<>> /\ evq = <<>>
  /\ now = StartMs
  /\ nEv = 0
  /\ calc = NoCalc
  /\ lim = [overlap |-> TRUE, events |-> DeepEvents, ticks |-> DeepTicks, urls |-> DeepUrls,
            refocus |-> TRUE, alarmOverlap |-> TRUE]
\* the browser raises alarms, focus changes and idle changes only
NextFlush ==
  \/ EnvFocus \/ EnvIdle \/ EnvAlarm \/ Tick
  \/ DeliverWindowFocus \/ DeliverIdle \/ DeliverAlarm
  \/ \E e \in 1 .. MaxEnds :
       EndSessionSettings(e) \/ EndSessionGetDays(e) \/ EndSessionSetDays(e)
  \/ \E h \in DOMAIN hs :
       \/ StartTrackingSettings(h) \/ StartTrackingTabGet(h) \/ StartTrackingSet(h)
       \/ PersistSettings(h) \/ PersistClearSet(h) \/ PersistGetDays(h) \/ PersistSetDays(h)
       \/ ReconcileLastFocused(h) \/ ReconcileQueryNew(h) \/ ReconcileQuerySame(h)
       \/ ActiveTabGetPending(h) \/ ActiveTabWindowGet(h) \/ RecoverSettings(h)
       \/ RecoverGetDays(h) \/ RecoverSetDays(h) \/ RecoverClearPending(h)
       \/ ActiveTabGet(h) \/ ClearLiveIndicator(h)
       \/ WindowFocusQuery(h) \/ LastFocusedGet(h) \/ LastFocusedQuery(h)
       \/ ResumeAfterStop(h)
SpecFlush == InitFlush /\ [][NextFlush]_vars

\* The worker was stopped while it tracked b.com on tab 3 of window 2, a normal window,
\* and has just been loaded again: the globals are at their initial values and the
\* storage holds the marker of that session.  The window is then closed and tabs are
\* switched while the user comes and goes.
InitRecover ==
  /\ mem = InitMem
  /\ store = [settings |-> InitSettings, days |-> NoDays,
              currentSession |-> [domain |-> "b.com", start |-> StartMs - TickMs],
              pendingSession |-> [domain |-> "b.com", start |-> StartMs - TickMs,
                                  persistedAt |-> StartMs - TickMs, windowId |-> 2,
                                  wasIncognito |-> FALSE, sid |-> 1]]
  /\ gh = [InitGhost EXCEPT !.sess = <<NewSess("b.com", 3, StartMs - TickMs, FALSE)>>]
  \* one more slot, for a handler that returns without awaiting anything
  /\ hs = [h \in 1 .. MaxHandlers + 1 |-> NoHandler]
  /\ es = [e \in 1 .. MaxEnds |-> NoEnd]
  /\ env = [InitEnv EXCEPT !.focused = 2, !.lastFoc = 2, !.incog2 = FALSE]
  /\ sq = <<>> /\ evq = <<>>
  /\ now = StartMs
  /\ nEv = 0
  /\ calc = NoCalc
  /\ lim = [overlap |-> TRUE, events |-> DeepEvents, ticks |-> DeepTicks, urls |-> DeepUrls,
            refocus |-> TRUE, alarmOverlap |-> FALSE]
NextRecover ==
  \/ EnvActivateTab \/ EnvIdle \/ EnvCloseWindow \/ Tick
  \/ DeliverTabActivated \/ DeliverTabRemoved \/ DeliverWindowRemoved
  \/ DeliverWindowFocus \/ DeliverIdle
  \/ \E e \in 1 .. MaxEnds :
       EndSessionSettings(e) \/ EndSessionGetDays(e) \/ EndSessionSetDays(e)
  \/ \E h \in DOMAIN hs :
       \/ StartTrackingSettings(h) \/ StartTrackingTabGet(h) \/ StartTrackingSet(h)
       \/ ActiveTabGetPending(h) \/ ActiveTabWindowGet(h) \/ RecoverSettings(h)
       \/ RecoverGetDays(h) \/ RecoverSetDays(h) \/ RecoverClearPending(h)
       \/ ActiveTabGet(h) \/ ClearLiveIndicator(h)
       \/ WindowFocusQuery(h) \/ LastFocusedGet(h) \/ LastFocusedQuery(h)
       \/ TabRemovedGet(h) \/ ResumeAfterStop(h)
SpecRecover == InitRecover /\ [][NextRecover]_vars

\* one handler at a time, and a tab or window query may be rejected
InitFault ==
  /\ InitFresh \/ InitInstalled(StartMs)
  /\ InitRest
  /\ lim = [overlap |-> FALSE, events |-> FaultEvents, ticks |-> FaultTicks, urls |-> Urls1,
            refocus |-> TRUE, alarmOverlap |-> TRUE]
NextFault == Next \/ \E h \in 1 .. MaxHandlers : QueryFails(h)
SpecFault == InitFault /\ [][NextFault]_vars

\* one handler at a time, and the write of one stop may never resolve
InitStuck ==
  /\ InitInstalled(StartMs - TickMs) /\ store.settings = InitSettings
  /\ InitRest /\ env = InitEnv
  /\ lim = [overlap |-> FALSE, events |-> StuckEvents, ticks |-> StuckTicks, urls |-> Urls1,
            refocus |-> TRUE, alarmOverlap |-> TRUE]
NextStuck == Next \/ \E e \in 1 .. MaxEnds : WriteStuck(e)
SpecStuck == InitStuck /\ [][NextStuck]_vars

\* one handler at a time; the user switches tabs, navigates and moves the focus
InitUpdate ==
  /\ InitInstalled(StartMs) /\ store.settings = InitSettings
  /\ InitRest /\ env = InitEnv
  /\ lim = [overlap |-> FALSE, events |-> UpdEvents, ticks |-> UpdTicks, urls |-> Urls1,
            refocus |-> TRUE, alarmOverlap |-> TRUE]
NextUpdate ==
  \/ EnvActivateTab \/ EnvNavigate \/ EnvFocus \/ Tick
  \/ DeliverTabActivated \/ DeliverTabUpdated \/ DeliverWindowFocus
  \/ \E e \in 1 .. MaxEnds :
       EndSessionSettings(e) \/ EndSessionGetDays(e) \/ EndSessionSetDays(e)
  \/ \E h \in DOMAIN hs :
       \/ StartTrackingSettings(h) \/ StartTrackingTabGet(h) \/ StartTrackingSet(h)
       \/ ActiveTabGetPending(h) \/ ActiveTabWindowGet(h) \/ RecoverSettings(h)
       \/ RecoverGetDays(h) \/ RecoverSetDays(h) \/ RecoverClearPending(h)
       \/ ActiveTabGet(h) \/ ClearLiveIndicator(h)
       \/ WindowFocusQuery(h) \/ TabUpdatedQuery(h) \/ ResumeAfterStop(h)
SpecUpdate == InitUpdate /\ [][NextUpdate]_vars

\* Handlers overlap; the behaviour begins on the last tick of day 0, half a second
\* after the install, and the clock runs into day 1.
LastTickOfDay == (DayLenTicks - 1) * TickMs
InitMidnight ==
  /\ InitInstalled(LastTickOfDay - TickMs) /\ store.settings = InitSettings
  /\ hs = [h \in 1 .. MaxHandlers |-> NoHandler]
  /\ es = [e \in 1 .. MaxEnds |-> NoEnd]
  /\ env = InitEnv
  /\ sq = <<>> /\ evq = <<>>
  /\ now = LastTickOfDay
  /\ nEv = 0
  /\ calc = NoCalc
  /\ lim = [overlap |-> TRUE, events |-> RollEvents,
            ticks |-> (LastTickOfDay - StartMs) \div TickMs + RollTicks, urls |-> Urls1,
            refocus |-> TRUE, alarmOverlap |-> TRUE]
SpecMidnight == InitMidnight /\ [][Next]_vars

\* ---- the pure helpers, called on their own
\* the unit test's values (src/unnamed/part_001:661-677) and small ones
MsValues == 0 .. MaxMs \cup {999, 1000, 5500}
GValues == -MaxG .. MaxG \cup {DEFAULT_GRANULARITY_MS}
TestTimeline ==
  << [start |-> 1000, end |-> 5000, domain |-> "a.com"],
     [start |-> 5000, end |-> 7000, domain |-> "a.com"],
     [start |-> 7000, end |-> 10000, domain |-> "b.com"] >>
\* a block ends no earlier than it starts (end is Date.now() when the session ends)
Blocks ==
  {b \in [start : 0 .. MaxTime, end : 0 .. MaxTime, domain : Domains] : b.start <= b.end}
Timelines == UNION {[1 .. n -> Blocks] : n \in 0 .. MaxBlocks} \cup {TestTimeline}
\* the unit test's URLs (src/unnamed/part_001:655-659)
U_YOUTUBE == <<"https://", "www.", "youtube.com", "/watch?v=1">>
U_GITHUB  == <<"https://", "github.com", "/foo">>
U_NOPARSE == <<"not a url">>
\* every scheme followed by up to MaxPieces hostname pieces and a path; only a file: URL
\* has no hostname at all
TestUrls ==
  {u \in {<<sch>> \o host \o <<"/">> :
            sch \in InternalSchemes \cup ParsedSchemes,
            host \in UNION {[1 .. n -> {"www.", "a.com"}] : n \in 0 .. MaxPieces}} :
     Len(u) = 2 => u[1] = "file://"}
  \cup {U_A, U_B, U_INT, U_BLANK, U_EMPTY, U_YOUTUBE, U_GITHUB, U_NOPARSE}

InitPure ==
  /\ InitFresh /\ store.settings = InitSettings
  /\ hs = [h \in 1 .. MaxHandlers |-> NoHandler]
  /\ es = [e \in 1 .. MaxEnds |-> NoEnd]
  /\ env = InitEnv
  /\ sq = <<>> /\ evq = <<>>
  /\ now = StartMs
  /\ nEv = 0
  /\ lim = [overlap |-> FALSE, events |-> 0, ticks |-> 0, urls |-> {},
            refocus |-> FALSE, alarmOverlap |-> FALSE]
  /\ \/ \E ms \in MsValues, g \in GValues :
          calc = [NoCalc EXCEPT !.op = "roundMs", !.ms = ms, !.g = g]
     \/ \E tl \in Timelines :
          calc = [NoCalc EXCEPT !.op = "aggregateTimeline", !.timeline = tl]
     \/ \E url \in TestUrls :
          calc = [NoCalc EXCEPT !.op = "hostnameFromUrl", !.url = url]

\* roundMs(ms, g)
RoundOnce ==
  /\ calc.op = "roundMs"
  /\ calc' = [calc EXCEPT !.op = "rounded", !.r1 = roundMs(calc.ms, calc.g)]
  /\ UNCHANGED <<mem, hs, es, store, env, sq, evq, now, nEv, lim, gh>>
\* roundMs(roundMs(ms, g), g)
RoundAgain ==
  /\ calc.op = "rounded"
  /\ calc' = [calc EXCEPT !.op = "roundedAgain", !.r2 = roundMs(calc.r1, calc.g)]
  /\ UNCHANGED <<mem, hs, es, store, env, sq, evq, now, nEv, lim, gh>>
\* aggregateTimeline(timeline)
Aggregate ==
  /\ calc.op = "aggregateTimeline"
  /\ calc' = [calc EXCEPT !.op = "aggregated", !.agg = aggregateTimeline(calc.timeline)]
  /\ UNCHANGED <<mem, hs, es, store, env, sq, evq, now, nEv, lim, gh>>

\* hostnameFromUrl(url)
HostnameOnce ==
  /\ calc.op = "hostnameFromUrl"
  /\ calc' = [calc EXCEPT !.op = "hostname", !.host = hostnameFromUrl(calc.url)]
  /\ UNCHANGED <<mem, hs, es, store, env, sq, evq, now, nEv, lim, gh>>

NextPure == RoundOnce \/ RoundAgain \/ Aggregate \/ HostnameOnce
SpecPure == InitPure /\ [][NextPure]_vars

\* ------------------------------------------------------------ the properties
Sessions == DOMAIN gh.sess

RECURSIVE SumBlocks(_, _)
\* sum of (end - start) over the timeline blocks of domain d
SumBlocks(tl, d) ==
  IF tl = <<>> THEN 0
  ELSE (IF Head(tl).domain = d THEN Head(tl).end - Head(tl).start ELSE 0) + SumBlocks(Tail(tl), d)
RECURSIVE CountBlocks(_, _)
CountBlocks(tl, d) ==
  IF tl = <<>> THEN 0
  ELSE (IF Head(tl).domain = d THEN 1 ELSE 0) + CountBlocks(Tail(tl), d)
DomainMs(day, d) == IF d \in DOMAIN day.domains THEN day.domains[d] ELSE 0
Abs(x) == IF x < 0 THEN -x ELSE x

\* C1: when stopTracking() is called again for a session whose stop is still
\* persisting, the session is ended once: one endSession call, at most one timeline
\* block with its final increment, and exactly one once a persisting stop has settled.
C1_StopOnce ==
  \A s \in Sessions :
    /\ gh.sess[s].stops <= 1
    /\ gh.sess[s].blocks <= gh.sess[s].stops
    /\ (gh.sess[s].ended /\ gh.sess[s].verdict = "persist") => gh.sess[s].blocks = 1
C1_Witness ==
  \E s \in Sessions :
    gh.sess[s].reStop /\ gh.sess[s].ended /\ gh.sess[s].blocks = 1 /\ gh.sess[s].stops = 1

\* C2: startTracking installs a session only when none is active: no session in
\* memory is replaced by another without having been stopped.
C2_NoOverwrite == ~gh.overwrote

\* C3: in a sequence of flushes of one session followed by its stop, the time added
\* to the totals for the session never exceeds the time elapsed since its start
\* (up to the stop, once it is stopped).
C3_NoOvercount ==
  \A s \in Sessions :
    gh.sess[s].added <=
      (IF gh.sess[s].stopAt # NoTime THEN gh.sess[s].stopAt ELSE now) - gh.sess[s].start
C3_Witness ==
  \E s \in Sessions :
    /\ Len(gh.sess[s].flushes) >= 1 /\ gh.sess[s].blocks = 1 /\ gh.sess[s].ended
    /\ gh.sess[s].added >= DEFAULT_GRANULARITY_MS

\* C4: with the exclusion list untouched, no incognito session and every session
\* stopped and persisted, the blocks of a domain and its total differ by at most one
\* granularity unit per block.
C4_Settled ==
  /\ Quiescent /\ gh.sid = 0 /\ mem.lastDomain = NULL
  /\ ~gh.exclTouched
  /\ \A s \in Sessions :
       ~gh.sess[s].incog /\ gh.sess[s].ended /\ gh.sess[s].blocks = 1 /\ gh.sess[s].recs = 0
C4_BlocksMatchTotals ==
  C4_Settled =>
    \A k \in DayKeys : \A d \in Domains :
      Abs(SumBlocks(store.days[k].timeline, d) - DomainMs(store.days[k], d))
        <= store.settings.timeGranularityMs * CountBlocks(store.days[k].timeline, d)

\* C5: with granularity 1000 a session started at t and flushed at t+500 and at
\* t+1000 has had exactly 1000 ms added to its domain's total.
C5_TwoHalfFlushes ==
  \A s \in Sessions :
    ( /\ Quiescent /\ gh.sid = s
      /\ store.settings.timeGranularityMs = 1000
      /\ gh.sess[s].flushes = <<gh.sess[s].start + 500, gh.sess[s].start + 1000>> )
    => gh.sess[s].added = 1000

\* C6: no flush and no stop adds time or a block for a domain that was in the
\* exclusion list of the settings that operation read; a session whose stop or flush
\* found its domain excluded gets no block.
C6_ExcludedNotWritten ==
  /\ ~gh.exclLeak
  /\ \A s \in Sessions : gh.sess[s].verdict = "excluded" => gh.sess[s].blocks = 0
C6_Witness ==
  \E s \in Sessions :
    /\ gh.sess[s].verdict = "excluded" /\ gh.sid # s
    /\ gh.sess[s].domain \in store.settings.excludeDomains
    /\ gh.sess[s].added = 0 /\ gh.sess[s].blocks = 0
    /\ now > gh.sess[s].start

\* C7: an operation that read keepIncognitoData off writes no time and no block of
\* a session whose tab was an incognito tab.
C7_NoIncognitoWritten == ~gh.privLeak

\* C8: while the user is idle no session is active in memory.
C8_IdleNoSession == mem.isIdle => mem.lastDomain = NULL

\* C9: a session is installed only for the tab that is, at that moment, the active
\* tab of the focused window.
C9_FocusedOnly == ~gh.offFocus

\* C10: a stopTracking() call made while a session is in memory returns with the
\* session cleared.
C10_StopClears == ~gh.stopKept

\* C11: a stopTracking() call made while an earlier stop's persistence is in flight
\* returns that pending operation, so that its caller waits for the write.
C11_ReturnsPending == ~gh.stopNoWait

\* C12: the write that ends a session is applied before the start write of a session
\* started afterwards: whenever a session is in memory and no handler and no write is
\* in flight, the stored live indicator and the pending marker name that session.
C12_StoredNamesSession ==
  (Quiescent /\ mem.lastDomain # NULL) =>
    /\ store.currentSession = [domain |-> mem.lastDomain, start |-> mem.lastStartTimestamp]
    /\ store.pendingSession.domain = mem.lastDomain
    /\ store.pendingSession.start = mem.lastStartTimestamp

\* C13: once the stop of the latest session has completed, also a stop that discarded
\* the session, the stored pending marker and live indicator are both cleared.
C13_StopClearsMarkers ==
  ( /\ Quiescent /\ mem.lastDomain = NULL
    /\ gh.sess # <<>> /\ gh.sess[Len(gh.sess)].ended )
  => (store.currentSession = NoSessionRec /\ store.pendingSession = NoPending)

\* C14: the write of a stop that persists appends one block to the day's timeline: it
\* starts at the session's original start and ends at the stop time, whatever flushes
\* happened during the session.
C14_OriginalStart ==
  [][\A s \in Sessions :
       gh'.sess[s].blocks > gh.sess[s].blocks =>
         LET tl == store'.days[getDateKey(gh'.sess[s].stopAt)].timeline IN
         /\ gh'.sess[s].blocks = 1
         /\ tl # <<>>
         /\ tl[Len(tl)] = [start |-> gh.sess[s].start, end |-> gh'.sess[s].stopAt,
                           domain |-> gh.sess[s].domain]]_vars
C14_Witness ==
  \E s \in Sessions : \E k \in DayKeys :
    /\ gh.sess[s].flushes # <<>> /\ gh.sess[s].added > 0
    /\ gh.sess[s].blocks = 1 /\ gh.sess[s].ended
    /\ gh.sess[s].stopAt > gh.sess[s].flushes[1]
    /\ \E i \in DOMAIN store.days[k].timeline :
         store.days[k].timeline[i] =
           [start |-> gh.sess[s].start, end |-> gh.sess[s].stopAt, domain |-> gh.sess[s].domain]

\* the last moment the session is known to have been flushed (its start when it never was)
LastFlush(s) ==
  IF gh.sess[s].flushes = <<>> THEN gh.sess[s].start
  ELSE gh.sess[s].flushes[Len(gh.sess[s].flushes)]

\* C15: a session recovered from the pending marker gets no time beyond its last known
\* flush: flushed time is not added again, and neither the total nor the block's end
\* reaches past that flush.
C15_RecoveryUpToLastFlush ==
  \A s \in Sessions :
    gh.sess[s].recs > 0 =>
      /\ gh.sess[s].added + gh.sess[s].recAdded <= LastFlush(s) - gh.sess[s].start
      /\ gh.sess[s].recEnd <= LastFlush(s)

\* handler h, invoked for an event of the given type, returns in this step
Completes(h, type) == hs[h].pc # "idle" /\ hs[h].ev[1] = type /\ hs'[h].pc = "idle"
\* a session is installed in this step by handler h
Installs(h) == hs[h].pc = "S1" /\ hs'[h].pc # "S1" /\ gh'.sid # gh.sid /\ gh'.sid # 0
\* C16: a focus change to no window leaves no session in memory; a handler of a focus
\* event for window W, invoked while a session of another window was tracked, installs
\* a session only after that session was stopped; and when a focus handler for W
\* returns while W is still the window last focused, a session in memory is on a tab of W.
C16_FocusChange ==
  [][ /\ ( /\ evq # <<>> /\ evq' = Tail(evq)
            /\ Head(evq).type = "focus" /\ Head(evq).windowId = WINDOW_ID_NONE )
          => mem'.lastDomain = NULL
      /\ \A h \in DOMAIN hs :
            /\ ( /\ hs[h].ev[1] = "focus" /\ Installs(h)
                  /\ hs[h].ev[4] # 0 /\ hs[h].ev[5] # hs[h].ev[3] )
                 => gh.sess[hs[h].ev[4]].stops >= 1
            /\ ( Completes(h, "focus") /\ mem'.lastFocusedWindowId = hs[h].ev[3] )
                 => (mem'.lastDomain # NULL => SessionWindow(mem') = hs[h].ev[3]) ]_vars
C16_Witness ==
  \E h \in DOMAIN hs :
    /\ hs[h].ev[1] = "focus" /\ hs[h].ev[3] = 2 /\ hs[h].pc = "S3"
    /\ mem.lastDomain # NULL /\ SessionWindow(mem) = 2
    /\ Len(gh.sess) >= 2 /\ gh.sess[1].ended /\ gh.sess[1].blocks = 1

\* C17: when handleActiveTab gets the newly active tab and that tab is another tab of the
\* tracked session's window, on the session's domain or with no URL / about:blank, the
\* session continues: only lastTabId changes; domain, start, last flush time, the
\* stored totals, timeline and session records stay as they were and no stop begins.
SameSiteSwitch(h) ==
  LET tabId == hs[h].tabId
      url == TabUrl(env, tabId)
  IN /\ hs[h].pc = "H8" /\ hs'[h].pc # "H8"
     /\ TabExists(env, tabId)
     /\ mem.lastDomain # NULL /\ mem.lastTabId # NoId
     /\ tabId # mem.lastTabId /\ TabWindow(tabId) = TabWindow(mem.lastTabId)
     /\ (hostnameFromUrl(url) = mem.lastDomain \/ url \in {U_EMPTY, U_BLANK})
C17_SameDomainContinues ==
  [][ \A h \in DOMAIN hs :
        SameSiteSwitch(h)
          => /\ mem' = [mem EXCEPT !.lastTabId = hs[h].tabId]
             /\ store' = store /\ gh' = gh /\ es' = es /\ sq' = sq ]_vars
\* the session installed on tab 1 was carried to tab 2 (same domain) and back to tab 1
\* while tab 1 showed about:blank
C17_Witness ==
  /\ Quiescent /\ env.url1 = U_BLANK /\ env.active1 = 1 /\ env.focused = 1
  /\ mem.lastDomain = "a.com" /\ mem.lastTabId = 1
  /\ mem.lastStartTimestamp = StartMs /\ mem.lastPersistedAt = StartMs
  /\ gh.sid = 1 /\ Len(gh.sess) = 1 /\ gh.sess[1].stops = 0 /\ gh.sess[1].blocks = 0

\* C18: a handler of tabs.onRemoved for the tab the session was tracked on looks up the
\* last-focused window, and installs a session, only after that session's stop has
\* settled, and it returns only when that session was stopped or has moved to another
\* tab; a handler of tabs.onRemoved that finds another tab tracked, or none,
\* returns and changes neither the globals nor storage nor the session records.
TrackedTabRemoved(h) ==
  hs[h].ev[1] = "removed" /\ hs[h].ev[4] # 0 /\ hs[h].ev[2] = hs[h].ev[6]
OtherTabRemoved(h) ==
  /\ hs[h].ev[1] = "removed" /\ hs[h].pc = "T1" /\ hs'[h].pc # "T1"
  /\ hs[h].ev[2] # mem.lastTabId
C18_TabRemoved ==
  [][ \A h \in DOMAIN hs :
        /\ ( /\ TrackedTabRemoved(h)
             /\ \/ hs[h].pc = "T3" /\ hs'[h].pc # "T3"
                \/ Installs(h) )
             => gh.sess[hs[h].ev[4]].ended
        /\ ( TrackedTabRemoved(h) /\ Completes(h, "removed") )
             => \/ gh'.sess[hs[h].ev[4]].stops >= 1
                \/ gh'.sid = hs[h].ev[4] /\ mem'.lastTabId # hs[h].ev[2]
        /\ OtherTabRemoved(h)
             => /\ mem' = mem /\ store' = store /\ gh' = gh /\ es' = es /\ sq' = sq
                /\ hs'[h].pc = "idle" ]_vars
\* the tracked tab 3 was closed with its window: its session was stopped with one block,
\* and the handler then started a session for tab 1, the active tab of the last-focused
\* window
C18_Witness ==
  \E h \in DOMAIN hs :
    /\ TrackedTabRemoved(h) /\ hs[h].ev[2] = 3 /\ hs[h].pc = "S3"
    /\ ~env.win2 /\ mem.lastDomain # NULL /\ mem.lastTabId = 1
    /\ gh.sess[hs[h].ev[4]].ended /\ gh.sess[hs[h].ev[4]].blocks = 1
    /\ gh.sid = hs[h].ev[4] + 1

\* C19: once every handler of the events raised by closing window 2 has returned, and
\* nothing else has happened since, the session that was tracked on the focused window's tab
\* has been stopped and its stop has settled, and tracking matches the active tab of
\* the last-focused window: a session in memory is on that tab with its domain, and
\* there is one when that tab is trackable, its window focused and the user active.
AfterWindowClose == Quiescent /\ ~env.win2 /\ gh.closed[1] = nEv /\ gh.closed[2] # 0
C19_WindowRemoved ==
  AfterWindowClose =>
    LET s == gh.closed[2]
        tab == ActiveTab(env, env.lastFoc)
        hostname == hostnameFromUrl(TabUrl(env, tab))
    IN /\ gh.sess[s].stops >= 1 /\ gh.sess[s].ended
       /\ gh.sid # s
       /\ mem.lastDomain # NULL => mem.lastTabId = tab /\ mem.lastDomain = hostname
       /\ ( /\ env.focused = env.lastFoc /\ ~env.idle /\ hostname # NULL
            /\ shouldTrack(hostname, store.settings.excludeDomains) )
          => mem.lastDomain = hostname
\* window 2, not an incognito window, was closed while its tab was tracked: the session
\* ended with one block and a.com on tab 1 is tracked
C19_Witness ==
  /\ AfterWindowClose /\ ~env.incog2
  /\ gh.sess[gh.closed[2]].blocks = 1 /\ gh.sess[gh.closed[2]].domain = "b.com"
  /\ mem.lastDomain = "a.com" /\ mem.lastTabId = 1
\* the same with window 2 an incognito window whose data is kept
C19_WitnessIncognito ==
  /\ AfterWindowClose /\ env.incog2
  /\ gh.sess[gh.closed[2]].blocks = 1 /\ gh.sess[gh.closed[2]].domain = "b.com"
  /\ mem.lastDomain = "a.com" /\ mem.lastTabId = 1

\* C20: when the alarm handler returns while no other handler or stop is in flight and
\* the user is active, a session is in memory exactly when the active tab of the
\* focused window is trackable, and it is that tab's session: its tab id and domain.
AlarmHandled ==
  \/ \E h \in DOMAIN hs : Completes(h, "alarm")
  \/ /\ evq # <<>> /\ Head(evq).type = "alarm" /\ evq' = Tail(evq)   \* returned without an await
     /\ \A h \in DOMAIN hs : hs[h].pc = "idle" /\ hs'[h].pc = "idle"
C20_AlarmResyncs ==
  [][ ( /\ AlarmHandled /\ Idle' /\ evq' = <<>> /\ ~env.idle )
          => LET tab == ActiveTab(env, env.focused)
                 hostname == hostnameFromUrl(TabUrl(env, tab))
                 trackable == /\ tab # NoId /\ hostname # NULL
                              /\ shouldTrack(hostname, store'.settings.excludeDomains)
             IN /\ (mem'.lastDomain # NULL) <=> trackable
                /\ mem'.lastDomain # NULL
                     => mem'.lastTabId = tab /\ mem'.lastDomain = hostname ]_vars
\* an alarm handler found the tracked tab no longer active, stopped the session and
\* started one for the tab that is
C20_Witness ==
  \E h \in DOMAIN hs :
    /\ hs[h].ev[1] = "alarm" /\ hs[h].pc = "S3" /\ hs[h].ev[4] # 0
    /\ gh.sess[hs[h].ev[4]].ended /\ gh.sid = hs[h].ev[4] + 1
    /\ mem.lastTabId = ActiveTab(env, env.focused) /\ mem.lastTabId # hs[h].ev[6]

\* C21: no failed tab or window query leaves an event handler as an uncaught error, and a
\* handler whose query failed returns with no session in memory.
C21_NoErrorEscapes == ~gh.errThrown /\ ~gh.errKept

\* C22: shouldTrack refuses the null domain, and when startTracking gets the settings
\* and its domain is null or excluded in them, it returns leaving the globals, the stored
\* live indicator, the pending-session marker, the day records and the settings as they
\* were, and no session is recorded.
StartUntrackable(h) ==
  /\ hs[h].pc = "S1" /\ hs'[h].pc # "S1"
  /\ hs[h].hostname = NULL \/ hs[h].hostname \in store.settings.excludeDomains
C22_StartNoOp ==
  [][ /\ \A ex \in SUBSET Domains : ~shouldTrack(NULL, ex)
      /\ \A h \in DOMAIN hs :
           StartUntrackable(h)
             => /\ mem' = mem /\ store' = store /\ es' = es
                /\ gh'.sess = gh.sess /\ gh'.sid = gh.sid
                /\ hs'[h].pc = "idle" ]_vars
\* startTracking was refused for the excluded domain of the focused window's active
\* tab: nothing is tracked and nothing is stored about a running session
C22_Witness ==
  /\ gh.startRefused /\ Quiescent /\ mem.lastDomain = NULL
  /\ env.focused = 1 /\ ~env.idle
  /\ hostnameFromUrl(TabUrl(env, ActiveTab(env, 1))) \in store.settings.excludeDomains
  /\ store.currentSession = NoSessionRec

\* C23: when a flush gets the settings and the session's domain is excluded in them, or
\* the session is an incognito one and keepIncognitoData is off, the flush clears the
\* session in memory and leaves the day records alone; the flush of an excluded domain
\* then clears the stored live indicator.
FlushForbidden(h) ==
  /\ hs[h].pc = "P1" /\ hs'[h].pc # "P1" /\ mem.lastDomain # NULL
  /\ \/ mem.lastDomain \in store.settings.excludeDomains
     \/ mem.lastTabIncognito /\ ~store.settings.keepIncognitoData
C23_FlushClears ==
  [][ \A h \in DOMAIN hs :
        /\ FlushForbidden(h)
             => /\ mem'.lastDomain = NULL /\ mem'.lastStartTimestamp = NoTime
                /\ store'.days = store.days
        /\ ( hs[h].pc = "P1x" /\ hs'[h].pc # "P1x" )
             => store'.currentSession = NoSessionRec /\ store'.days = store.days ]_vars

\* C24: once the write of a stop never resolves, no handler begins to wait for that
\* stop: stopTracking never answers a later call with the stuck promise, which it does
\* only when it leaves the session of that call in memory.
AwaitsStuck(h) ==
  /\ hs[h].w = NoId /\ hs'[h].w # NoId
  /\ es[hs'[h].w].st = "stuck"
C24_StuckWriteNoWedge ==
  [][ \A h \in DOMAIN hs : ~AwaitsStuck(h) ]_vars

\* C25: no step lowers a cumulative total: every domain of every day record keeps its
\* entry, and its ms after the step is at least its ms before.
C25_TotalsNeverDecrease ==
  [][ \A k \in DayKeys : \A d \in DOMAIN store.days[k].domains :
        /\ d \in DOMAIN store'.days[k].domains
        /\ store'.days[k].domains[d] >= store.days[k].domains[d] ]_vars

\* C26: no step removes or changes a timeline block: the timeline of every day before
\* the step is a prefix of its timeline after the step.
IsPrefix(s, t) == Len(s) <= Len(t) /\ SubSeq(t, 1, Len(s)) = s
C26_TimelineAppendOnly ==
  [][ \A k \in DayKeys : IsPrefix(store.days[k].timeline, store'.days[k].timeline) ]_vars

\* C27: no two timeline blocks of a day overlap in time: of any two blocks, one ends
\* no later than the other starts.
BlocksOverlap(a, b) == a.start < b.end /\ b.start < a.end
C27_NoOverlappingBlocks ==
  \A k \in DayKeys : \A i, j \in DOMAIN store.days[k].timeline :
    i < j => ~BlocksOverlap(store.days[k].timeline[i], store.days[k].timeline[j])

\* C28: roundMs is idempotent, roundMs(roundMs(ms, g), g) = roundMs(ms, g) for every
\* ms >= 0 and every g, and for g <= 0 roundMs(ms, g) = ms.
C28_RoundIdempotent ==
  /\ calc.op = "roundedAgain" => calc.r2 = calc.r1
  /\ (calc.op \in {"rounded", "roundedAgain"} /\ calc.g <= 0) => calc.r1 = calc.ms
\* a duration that is not a multiple of the granularity was rounded twice
C28_Witness ==
  /\ calc.op = "roundedAgain" /\ calc.g > 1 /\ calc.ms % calc.g # 0
  /\ calc.r1 # calc.ms /\ calc.r2 = calc.r1

\* C29: for ms >= 0 and g > 0, roundMs(ms, g) is the largest multiple of g that is at
\* most ms, so 0 <= ms - roundMs(ms, g) < g; 5500 gives 5000, 999 gives 0 and 0 gives 0
\* for g = 1000.
C29_RoundFloor ==
  (calc.op = "rounded" /\ calc.ms >= 0 /\ calc.g > 0) =>
    /\ calc.r1 % calc.g = 0
    /\ 0 <= calc.ms - calc.r1 /\ calc.ms - calc.r1 < calc.g
    /\ \A m \in 0 .. calc.ms : m % calc.g = 0 => m <= calc.r1
    /\ (calc.g = 1000 /\ calc.ms = 5500) => calc.r1 = 5000
    /\ (calc.g = 1000 /\ calc.ms = 999) => calc.r1 = 0
    /\ (calc.g = 1000 /\ calc.ms = 0) => calc.r1 = 0
C29_Witness ==
  calc.op = "rounded" /\ calc.ms = 5500 /\ calc.g = 1000 /\ calc.r1 = 5000

\* C30: aggregateTimeline returns one entry per distinct domain of the timeline, the ms
\* of an entry is the sum of (end - start) over the blocks of its domain, and the entries
\* are in order of non-increasing ms.
TimelineDomains(tl) == {tl[i].domain : i \in DOMAIN tl}
C30_Aggregate ==
  calc.op = "aggregated" =>
    /\ {calc.agg[i].domain : i \in DOMAIN calc.agg} = TimelineDomains(calc.timeline)
    /\ Len(calc.agg) = Cardinality(TimelineDomains(calc.timeline))
    /\ \A i \in DOMAIN calc.agg : calc.agg[i].ms = SumBlocks(calc.timeline, calc.agg[i].domain)
    /\ \A i, j \in DOMAIN calc.agg : i < j => calc.agg[i].ms >= calc.agg[j].ms
\* the unit test's timeline: a.com with 6000 ms, then b.com with 3000 ms
C30_Witness ==
  /\ calc.op = "aggregated" /\ calc.timeline = TestTimeline
  /\ Len(calc.agg) = 2
  /\ calc.agg[1].domain = "a.com" /\ calc.agg[1].ms = 6000
  /\ calc.agg[2].domain = "b.com" /\ calc.agg[2].ms = 3000

\* C31 as stated: hostnameFromUrl returns null for the empty URL, for a URL of an internal
\* scheme and for a URL that does not parse, and for every other URL its hostname
\* without one leading "www.".
UrlIsNull(url) ==
  \/ url = U_EMPTY
  \/ url[1] \in {"chrome://", "chrome-extension://", "edge://", "about:"}
  \/ url[1] \notin ParsedSchemes
HostnameWithoutWww(url) ==
  LET p == HostPieces(url)
  IN IF Len(p) >= 1 /\ p[1] = "www." THEN Join(SubSeq(p, 2, Len(p))) ELSE Join(p)
C31_HostnameAsStated ==
  calc.op = "hostname" =>
    calc.host = IF UrlIsNull(calc.url) THEN NULL ELSE HostnameWithoutWww(calc.url)
\* C31: hostnameFromUrl returns null for the empty URL, for a URL of an internal scheme,
\* for a URL that does not parse and for a URL whose hostname without one leading "www."
\* is empty (file:///...), and for every other URL its hostname without one leading
\* "www."; the unit test's URLs give youtube.com, github.com and null.
C31_Hostname ==
  calc.op = "hostname" =>
    /\ calc.host = IF UrlIsNull(calc.url) \/ HostnameWithoutWww(calc.url) = "" THEN NULL
                   ELSE HostnameWithoutWww(calc.url)
    /\ calc.url = U_YOUTUBE => calc.host = "youtube.com"
    /\ calc.url = U_GITHUB => calc.host = "github.com"
    /\ calc.url \in {U_INT, U_EMPTY} => calc.host = NULL
\* a hostname that begins with "www.www." lost one "www."
C31_Witness ==
  /\ calc.op = "hostname" /\ calc.url = <<"https://", "www.", "www.", "a.com", "/">>
  /\ calc.host = "www.a.com"

\* C32: every timeline block in storage ends no earlier than it starts, whether a stop
\* or pending-session recovery wrote it (the clock never runs backwards).
C32_BlockEndAfterStart ==
  \A k \in DayKeys : \A i \in DOMAIN store.days[k].timeline :
    store.days[k].timeline[i].end >= store.days[k].timeline[i].start
\* a stop wrote a block for one session and recovery wrote one for another, both of
\* them longer than nothing
C32_Witness ==
  /\ \E s \in Sessions : gh.sess[s].blocks = 1 /\ gh.sess[s].stopAt > gh.sess[s].start
  /\ \E s \in Sessions : gh.sess[s].recs = 1 /\ gh.sess[s].recEnd > gh.sess[s].start
  /\ \E k \in DayKeys : Len(store.days[k].timeline) = 2

\* C33: a step of a flush whose session is trackable in the settings it read leaves the
\* session's start, domain and tab id, every timeline and the stored live indicator as
\* they were; of the globals it changes lastPersistedAt only, and of the storage only the
\* total of the flushed session's domain in the record of the current day.
TrackableFlush(h) ==
  \/ /\ hs[h].pc = "P1" /\ hs'[h].pc # "P1"
     /\ shouldTrack(mem.lastDomain, store.settings.excludeDomains)
  \/ hs[h].pc = "P2" /\ hs'[h].pc # "P2"
  \/ hs[h].pc = "P3" /\ hs'[h].pc # "P3"
FlushDomain(h) == SessGet(gh, hs[h].f.sid, "domain", NULL)
C33_FlushFrame ==
  [][ \A h \in DOMAIN hs : TrackableFlush(h) =>
        /\ mem'.lastStartTimestamp = mem.lastStartTimestamp
        /\ mem'.lastDomain = mem.lastDomain /\ mem'.lastTabId = mem.lastTabId
        /\ \A k \in DayKeys : store'.days[k].timeline = store.days[k].timeline
        /\ store'.currentSession = store.currentSession
        /\ store'.pendingSession = store.pendingSession /\ store'.settings = store.settings
        /\ mem' = [mem EXCEPT !.lastPersistedAt = mem'.lastPersistedAt]
        /\ \A k \in DayKeys :
             /\ DOMAIN store'.days[k].domains
                  \subseteq DOMAIN store.days[k].domains \cup {FlushDomain(h)}
             /\ \A d \in DOMAIN store'.days[k].domains \cup DOMAIN store.days[k].domains :
                  (k # getDateKey(now) \/ d # FlushDomain(h))
                    => DomainMs(store'.days[k], d) = DomainMs(store.days[k], d) ]_vars

\* C34: startTracking, once the settings allow its domain, sets the session in memory to
\* that domain with start = lastPersistedAt = Date.now(); its write stores a live
\* indicator and a pending-session marker with that domain and that start in place of
\* whatever was stored; and when it returns, the session it installed, if still the one
\* in memory, has start = lastPersistedAt = that start.
StartReturns(h) == hs[h].pc = "S3" /\ hs'[h].pc # "S3"
C34_StartInstalls ==
  [][ \A h \in DOMAIN hs :
        /\ Installs(h) =>
              /\ mem'.lastDomain = hs[h].hostname /\ mem'.lastTabId = hs[h].tabId
              /\ mem'.lastStartTimestamp = now /\ mem'.lastPersistedAt = now
              /\ hs'[h].f.now = now
        /\ StartReturns(h) =>
              /\ store'.currentSession = [domain |-> hs[h].hostname, start |-> hs[h].f.now]
              /\ store'.pendingSession.domain = hs[h].hostname
              /\ store'.pendingSession.start = hs[h].f.now
              /\ store'.pendingSession.persistedAt = hs[h].f.now
              /\ gh.sid = hs[h].f.sid =>
                    /\ mem'.lastDomain = hs[h].hostname
                    /\ mem'.lastStartTimestamp = hs[h].f.now
                    /\ mem'.lastPersistedAt = hs[h].f.now ]_vars
\* the worker was loaded again while the marker of the first session was stored; the
\* next event started a second session, whose marker and live indicator replaced it
C34_Witness ==
  /\ Quiescent /\ Len(gh.sess) = 2 /\ gh.sid = 2
  /\ gh.sess[1].stops = 0 /\ gh.sess[1].recs = 0 /\ ~gh.overwrote
  /\ store.pendingSession.sid = 2 /\ store.pendingSession.start > gh.sess[1].start
  /\ mem.lastDomain = store.pendingSession.domain
  /\ mem.lastStartTimestamp = store.pendingSession.start
  /\ mem.lastPersistedAt = mem.lastStartTimestamp
  /\ store.currentSession = [domain |-> mem.lastDomain, start |-> mem.lastStartTimestamp]

\* C35: with no session in memory stopTracking returns null and changes no global, begins
\* no endSession and issues no storage call; a handler that only calls it (the focus left
\* the browser, the user went idle) changes its own flag and nothing in storage.
NoSession(m) == m.lastDomain = NULL \/ m.lastStartTimestamp = NoTime
C35_StopNoSession ==
  [][ /\ NoSession(mem) =>
           LET r == StopTracking(Cur)
           IN r.w = NoId /\ r.P.m = mem /\ r.P.es = es /\ r.P.sq = sq /\ r.P.hs = hs
      /\ ( /\ NoSession(mem) /\ evq # <<>> /\ evq' = Tail(evq)
           /\ Head(evq).type = "focus" /\ Head(evq).windowId = WINDOW_ID_NONE )
          => /\ mem' = [mem EXCEPT !.lastFocusedWindowId = NoId]
             /\ store' = store /\ sq' = sq /\ es' = es
      /\ ( /\ NoSession(mem) /\ evq # <<>> /\ evq' = Tail(evq)
           /\ Head(evq).type = "idle" /\ Head(evq).nowIdle /\ ~mem.isIdle )
          => /\ mem' = [mem EXCEPT !.isIdle = TRUE]
             /\ store' = store /\ sq' = sq /\ es' = es ]_vars
\* the session was stopped once, with one block, although stopTracking ran twice: when
\* the focus left the browser and when the user went idle
C35_Witness ==
  /\ Quiescent /\ mem.isIdle /\ mem.lastFocusedWindowId = NoId /\ env.focused = NoId
  /\ NoSession(mem) /\ mem.pendingWrite = NoId
  /\ Len(gh.sess) = 1 /\ gh.sess[1].stops = 1 /\ gh.sess[1].ended /\ gh.sess[1].blocks = 1
  /\ \E k \in DayKeys : Len(store.days[k].timeline) = 1
  /\ store.currentSession = NoSessionRec /\ store.pendingSession = NoPending

\* C36: recovery's endSession begins only while no session is in memory and the marker's
\* window is gone, and no session is persisted twice: the blocks its stop wrote and the
\* blocks recovery wrote for it are at most one together.
C36_RecoveryNoDouble ==
  [][ /\ \A h \in DOMAIN hs :
           (hs[h].pc = "H2" /\ hs'[h].pc = "H3")
             => NoSession(mem) /\ ~WinExists(env, hs[h].f.windowId)
      /\ \A s \in DOMAIN gh'.sess : gh'.sess[s].blocks + gh'.sess[s].recs <= 1 ]_vars

\* C37: in every state the session globals are all set or all clear: lastDomain is null
\* exactly when lastStartTimestamp is, and exactly when lastPersistedAt is; when set,
\* lastStartTimestamp <= lastPersistedAt; and with no session lastTabId and
\* lastTrackedWindowId are null and lastTabIncognito is false.
C37_AllSetOrAllClear ==
  /\ (mem.lastDomain = NULL) <=> (mem.lastStartTimestamp = NoTime)
  /\ (mem.lastStartTimestamp = NoTime) <=> (mem.lastPersistedAt = NoTime)
  /\ mem.lastDomain # NULL => mem.lastStartTimestamp <= mem.lastPersistedAt
  /\ mem.lastDomain = NULL =>
        /\ mem.lastTabId = NoId /\ mem.lastTrackedWindowId = NoId
        /\ ~mem.lastTabIncognito

\* C38: every key of a day's domains map is the domain of a session that was tracked,
\* never the missing (null) domain: a flush adds its delta under the domain of the
\* session it began with, also when a stop clears the session while it awaits storage.
C38_FlushOwnDomain ==
  \A k \in DayKeys : \A d \in DOMAIN store.days[k].domains :
    d # NULL /\ \E s \in Sessions : gh.sess[s].domain = d

\* C39: when onTabUpdated gets the answer to its tab query (lines 350-362):
\* if the changed tab is not the active tab of the focused window, or is the tracked tab
\* and its URL resolves to the session's domain, the handler returns and the globals,
\* the storage, the stops and the storage calls in flight are as before; if it is that
\* active tab and its URL is untrackable, no session is in memory afterwards and the
\* handler returns without starting one; if its URL resolves to another domain than the
\* tracked one, the tracked session is stopped and the handler awaits that stop before
\* it calls startTracking.
UrlChanged(h) == hs[h].ev[1] = "updated" /\ hs[h].pc = "U1" /\ hs'[h].pc # "U1"
ActiveAndFocused(t) == env.focused # NoId /\ ActiveTab(env, env.focused) = t
SameSite(h) ==
  hs[h].hostname # NULL /\ hs[h].hostname = mem.lastDomain /\ hs[h].tabId = mem.lastTabId
C39_TabUpdated ==
  [][ \A h \in DOMAIN hs : UrlChanged(h) =>
        /\ (~ActiveAndFocused(hs[h].tabId) \/ SameSite(h))
             => /\ mem' = mem /\ store' = store /\ es' = es /\ sq' = sq
                /\ hs'[h].pc = "idle"
        /\ (ActiveAndFocused(hs[h].tabId) /\ hs[h].hostname = NULL)
             => NoSession(mem') /\ hs'[h].pc = "idle"
        /\ (ActiveAndFocused(hs[h].tabId) /\ hs[h].hostname # NULL /\ ~SameSite(h)
               /\ ~NoSession(mem))
             => /\ NoSession(mem') /\ gh'.sess[gh.sid].stops = 1
                /\ hs'[h].pc = "U2w" /\ hs'[h].w # NoId ]_vars

====
